---- MODULE Spec2Model ----
(***************************************************************************)
(* Latter: a migration tool.  The model covers the Migration entity, the   *)
(* MigrationLoader, the MigrationRunner, the orchestrator (class Latter)   *)
(* and the database adapter the orchestrator drives.                       *)
(*                                                                         *)
(* The database is the pair (ledger, schema): the rows of the migrations   *)
(* table in insertion order, and the set of migrations whose `up` body is  *)
(* in effect in the target schema.  The migrations directory is `dir`.     *)
(* Every public operation of Latter is one action; the adapter calls it    *)
(* makes are threaded through a "world" record, so that a failure of any   *)
(* single call (drawn with \E) can be followed through the try/catch       *)
(* structure of the code.                                                  *)
(***************************************************************************)
EXTENDS Integers, Sequences, FiniteSets, TLC

VARIABLES
  dir,       \* the migrations directory: name -> file entry
  table,     \* TRUE iff the migrations table exists in the database
  ledger,    \* committed rows of the migrations table, in insertion order
  schema,    \* committed target schema: names whose up body is in effect
  options,   \* LatterOptions of the instance: dryRun, forceSync, skipOutOfSync
  last,      \* record of the last public operation (its call log and result)
  adapter,   \* a database adapter object: its kind and its private fields
  session,   \* what the adapter's caller has seen: the last call and its outcome
  migrationsDir,  \* what the migrations path is on disk: absent, directory, file
  orchestrators  \* Latter instances at work on one database at the same time

vars ==
  <<dir, table, ledger, schema, options, last, adapter, session, migrationsDir,
    orchestrators>>

----------------------------------------------------------------------------
(* Bounds *)

NumNames == 2      \* migration names in play
MaxSteps == 2      \* rollback(steps) is called with steps in -1..MaxSteps

\* The names in play and the timestamp each one's file resolves to: name
\* order and timestamp order differ, and "a" and "c" share a timestamp.
AllNames == <<"a", "b", "c", "d", "e", "f">>
TsOf == [a |-> 2, b |-> 1, c |-> 2, d |-> 3, e |-> 1, f |-> 3]
Names == {AllNames[i] : i \in 1..NumNames}
MaxCalls == 2 * NumNames + 6   \* no operation makes more adapter calls
FailPoints == 0..MaxCalls      \* 0: no call fails; k: the k-th call fails

----------------------------------------------------------------------------
(* Generic sequence helpers *)

Min(x, y) == IF x < y THEN x ELSE y
Max(x, y) == IF x > y THEN x ELSE y

RECURSIVE Concat(_)
Concat(ss) == IF ss = <<>> THEN <<>> ELSE Head(ss) \o Concat(Tail(ss))

Range(s) == {s[i] : i \in 1..Len(s)}

NamesOf(s) == [i \in 1..Len(s) |-> s[i].name]

\* Array.prototype.sort with comparator (a, b) => a.timestamp - b.timestamp:
\* a stable sort, elements with equal timestamp keep their relative order.
RECURSIVE InsertAsc(_, _)
InsertAsc(s, x) ==
  IF s = <<>> THEN <<x>>
  ELSE IF Head(s).timestamp <= x.timestamp
       THEN <<Head(s)>> \o InsertAsc(Tail(s), x)
       ELSE <<x>> \o s

RECURSIVE SortAsc(_)
SortAsc(s) ==
  IF s = <<>> THEN <<>>
  ELSE InsertAsc(SortAsc(SubSeq(s, 1, Len(s) - 1)), s[Len(s)])

\* Array.prototype.sort with comparator (a, b) => b.timestamp - a.timestamp
RECURSIVE InsertDesc(_, _)
InsertDesc(s, x) ==
  IF s = <<>> THEN <<x>>
  ELSE IF Head(s).timestamp >= x.timestamp
       THEN <<Head(s)>> \o InsertDesc(Tail(s), x)
       ELSE <<x>> \o s

RECURSIVE SortDesc(_)
SortDesc(s) ==
  IF s = <<>> THEN <<>>
  ELSE InsertDesc(SortDesc(SubSeq(s, 1, Len(s) - 1)), s[Len(s)])

\* Array.prototype.slice(0, end): a negative end counts from the back
Slice0(s, end) ==
  LET e == IF end < 0 THEN Max(Len(s) + end, 0) ELSE Min(end, Len(s))
  IN SubSeq(s, 1, e)

----------------------------------------------------------------------------
(* Migration entity *)

Migration(name, up, down, timestamp) ==
  [name |-> name, up |-> up, down |-> down, timestamp |-> timestamp]

\* Variant: validate() that does not look at the down body
validateIgnoringDown(m) == m.name # "" /\ m.up # ""

\* Migration.validate(): !!(name && up && down)
validate(m) == m.name # "" /\ m.up # "" /\ m.down # ""

\* Migration.toStatus(): the fields the adapter persists
toStatus(m) == [name |-> m.name, timestamp |-> m.timestamp]

\* MigrationOptions: name, up and down are required; `given` holds the
\* optional properties the caller passed (the others are undefined)
MigrationOptions ==
  [name : {"", "a", "ab"}, up : {"", "c", "bc"}, down : {"", "d"},
   dependencies : {<<>>}, version : {""}, timestamp : {0}, given : {{}}]
  \cup
  [name : {"", "a", "ab"}, up : {"", "c", "bc"}, down : {"", "d"},
   dependencies : {<<"x">>}, version : {"v1"}, timestamp : {0, 4},
   given : SUBSET {"dependencies", "version", "timestamp"}]

\* Date.now() at the time of a construction
Clock == {8, 9}

\* createHash('sha256').update(content).digest('hex').substring(0, 8): the
\* digest is kept as a term over its input, so that two versions are equal
\* in the model only if the hashed contents are (no collision is assumed in
\* favour of the code, none is excluded against it)
digest(content) == "sha256:" \o content

\* Variant: the three parts are hashed with a separator between them
generateVersionSeparated(name, up, down) ==
  digest(name \o "|" \o up \o "|" \o down)

\* Migration.generateVersion(): the hash of `${name}${up}${down}`
generateVersion(name, up, down) == digest(name \o up \o down)

\* new Migration(options) at clock time now.  An optional property counts as
\* passed only if it is truthy (options.x || default).
constructor(o, now) ==
  [name |-> o.name, up |-> o.up, down |-> o.down,
   dependencies |-> IF "dependencies" \in o.given
                    THEN o.dependencies ELSE <<>>,
   version |-> IF "version" \in o.given /\ o.version # ""
               THEN o.version ELSE generateVersion(o.name, o.up, o.down),
   timestamp |-> IF "timestamp" \in o.given /\ o.timestamp # 0
                 THEN o.timestamp ELSE now]

----------------------------------------------------------------------------
(* Migration loader *)

NoFile ==
  [kind |-> "none", timestamp |-> 0, up |-> "", down |-> "",
   prefix |-> 0, field |-> 0]

\* A directory entry for name n is absent, a JSON file n.json, or the pair
\* n_up.sql / n_down.sql.  `up` and `down` are the bodies ("" is an empty or
\* whitespace-only body), `timestamp` is the modification time of the file
\* (MigrationFile.timestamp), `prefix` the number the file name starts with
\* and `field` the timestamp field of a JSON content (0: there is none).
FileStates(n) ==
  [kind : {"json"}, timestamp : {TsOf[n]}, up : {"UP"}, down : {"DOWN"},
   prefix : {0}, field : {0}]
  \cup [kind : {"sql"}, timestamp : {TsOf[n]}, up : {"", "UP"}, down : {"DOWN"},
        prefix : {0}, field : {0}]

\* The numeric prefix a file name may carry, and the timestamp field a JSON
\* content may carry: both unlike the modification time, and the prefixes
\* in the opposite order
PrefixOf(n) == 7 - TsOf[n]

FieldOf(n) == 7 + TsOf[n]

\* Besides these, a directory may hold files whose name starts with a
\* number, JSON files with a timestamp field, a JSON file that lacks a
\* required field or is not JSON at all, one member of an SQL pair without
\* the other, or a file that is listed but cannot be read.
LoaderFileStates(n) ==
  FileStates(n)
  \cup [kind : {"jsonMalformed", "jsonUnreadable", "sqlUnreadable"},
        timestamp : {TsOf[n]}, up : {"UP"}, down : {"DOWN"},
        prefix : {0}, field : {0}]
  \cup [kind : {"json"}, timestamp : {TsOf[n]}, up : {"UP"}, down : {"DOWN"},
        prefix : {0, PrefixOf(n)}, field : {0, FieldOf(n)}]
  \cup [kind : {"sql"}, timestamp : {TsOf[n]}, up : {"UP"}, down : {"DOWN"},
        prefix : {0, PrefixOf(n)}, field : {0}]
  \cup [kind : {"json"}, timestamp : {TsOf[n]}, up : {""}, down : {"DOWN"},
        prefix : {0}, field : {0}]
  \cup [kind : {"sqlUp"}, timestamp : {TsOf[n]}, up : {"UP"}, down : {""},
        prefix : {0}, field : {0}]
  \cup [kind : {"sqlDown"}, timestamp : {TsOf[n]}, up : {""}, down : {"DOWN"},
        prefix : {0}, field : {0}]

\* getMigrationFiles(): one MigrationFile per regular file with a migration
\* extension; a paired-SQL migration contributes its two files.
filesOf(d, n) ==
  CASE d[n].kind = "json" -> <<[base |-> n, ext |-> ".json", file |-> d[n]]>>
    [] d[n].kind = "sql"  -> <<[base |-> n, ext |-> "_down.sql", file |-> d[n]],
                               [base |-> n, ext |-> "_up.sql", file |-> d[n]]>>
    [] d[n].kind = "jsonMalformed" ->
                             <<[base |-> n, ext |-> ".json", file |-> d[n]]>>
    [] d[n].kind = "sqlUp" -> <<[base |-> n, ext |-> "_up.sql", file |-> d[n]]>>
    [] d[n].kind = "sqlDown" ->
                             <<[base |-> n, ext |-> "_down.sql", file |-> d[n]]>>
    [] OTHER              -> <<>>

\* getMigrationFiles() stats and reads every listed file inside one try: a
\* file that cannot be read makes it throw
readFails(d) ==
  \E n \in Names : d[n].kind \in {"jsonUnreadable", "sqlUnreadable"}

getMigrationFiles(d) ==
  Concat([i \in 1..NumNames |-> filesOf(d, AllNames[i])])

\* parseSqlMigration(): called for the _up.sql and for the _down.sql file;
\* each call reads both members and returns a Migration named after the base,
\* or null when reading one of the two fails (the member is not there).
parseSqlMigration(e) ==
  IF e.file.kind = "sql"
  THEN <<Migration(e.base, e.file.up, e.file.down, e.file.timestamp)>>
  ELSE <<>>

\* parseJsonMigration(): null when JSON.parse throws or a required field is
\* missing; the
\* timestamp is data.timestamp || file.timestamp
parseJsonMigration(e) ==
  IF e.file.kind = "jsonMalformed"
     \/ e.base = "" \/ e.file.up = "" \/ e.file.down = ""
  THEN <<>>
  ELSE <<Migration(e.base, e.file.up, e.file.down,
                   IF e.file.field # 0 THEN e.file.field
                   ELSE e.file.timestamp)>>

parseMigrationFile(e) ==
  IF e.ext = ".json" THEN parseJsonMigration(e) ELSE parseSqlMigration(e)

\* loadMigrations(): parse every file, keep the non-null results, sort
loadMigrations(d) ==
  LET files == getMigrationFiles(d)
  IN SortAsc(Concat([i \in 1..Len(files) |-> parseMigrationFile(files[i])]))

----------------------------------------------------------------------------
(* Database adapter.                                                       *)
(*                                                                         *)
(* A world w is the state one operation threads through its adapter calls: *)
(*   table, ledger, schema     what the operation's connection sees        *)
(*   cTable, cLedger, cSchema  what is committed in the database           *)
(*   inTx                      a transaction is open on the connection     *)
(*   log                       the adapter calls made so far, in order     *)
(*   failAt, rbFail            the environment: the failAt-th call fails,  *)
(*                             and rollbackTransaction fails iff rbFail    *)
(*   err                       the pending exception (<<>>: none)          *)
(*   acc, res                  the Runner's name list and its result       *)

NoErr == <<>>
NoRes == [success |-> FALSE, names |-> <<>>, error |-> NoErr]

World(f, rb) ==
  [table |-> table, ledger |-> ledger, schema |-> schema,
   cTable |-> table, cLedger |-> ledger, cSchema |-> schema,
   inTx |-> FALSE, log |-> <<>>, failAt |-> f, rbFail |-> rb,
   err |-> NoErr, acc |-> <<>>, res |-> NoRes]

Failed(w) == w.err # NoErr

Throw(w, e) == [w EXCEPT !.err = e]

Logged(w, c, n, o) ==
  [w EXCEPT !.log = Append(@, [call |-> c, name |-> n, outcome |-> o])]

\* One call into the adapter (or the file system): it fails when the
\* environment makes this call fail, and is logged either way.
Call(w, c, n) ==
  IF Len(w.log) + 1 = w.failAt
  THEN Throw(Logged(w, c, n, "fault"), <<"fault", c>>)
  ELSE Logged(w, c, n, "ok")

\* A write through the connection: visible at once, committed at once
\* unless a transaction is open.
Write(w, l, s) ==
  IF w.inTx
  THEN [w EXCEPT !.ledger = l, !.schema = s]
  ELSE [w EXCEPT !.ledger = l, !.schema = s, !.cLedger = l, !.cSchema = s]

connect(w) == Call(w, "connect", "")

\* Variant: the table is dropped and created anew on every call
createMigrationsTableRecreating(w) ==
  LET w1 == Call(w, "createMigrationsTable", "")
  IN IF Failed(w1) THEN w1
     ELSE [w1 EXCEPT !.table = TRUE, !.cTable = TRUE,
                     !.ledger = <<>>, !.cLedger = <<>>]

\* createMigrationsTable(): CREATE TABLE only if tableExists() is false
createMigrationsTable(w) ==
  LET w1 == Call(w, "createMigrationsTable", "")
  IN IF Failed(w1) \/ w1.table THEN w1
     ELSE [w1 EXCEPT !.table = TRUE, !.cTable = TRUE]

\* getAppliedMigrations(): SELECT ... ORDER BY timestamp ASC
getAppliedMigrations(w) == Call(w, "getAppliedMigrations", "")

appliedRows(w) == SortAsc(w.ledger)

\* execute(sql) of a migration body: `up` puts the migration into effect in
\* the target schema, `down` takes it out.
execute(w, body, n) ==
  LET w1 == Call(w, IF body = "up" THEN "executeUp" ELSE "executeDown", n)
  IN IF Failed(w1) THEN w1
     ELSE Write(w1, w1.ledger,
                IF body = "up" THEN w1.schema \cup {n} ELSE w1.schema \ {n})

\* Variant: the insert into a table whose name column is not UNIQUE
markMigrationAppliedNotUnique(w, st) ==
  LET w1 == Call(w, "markMigrationApplied", st.name)
  IN IF Failed(w1) THEN w1
     ELSE Write(w1, Append(w1.ledger, st), w1.schema)

\* markMigrationApplied(): INSERT INTO table (name, ...); name is UNIQUE
markMigrationApplied(w, st) ==
  IF Len(w.log) + 1 # w.failAt /\ st.name \in Range(NamesOf(w.ledger))
  THEN Throw(Logged(w, "markMigrationApplied", st.name, "constraint"),
             <<"UNIQUE constraint failed", st.name>>)
  ELSE LET w1 == Call(w, "markMigrationApplied", st.name)
       IN IF Failed(w1) THEN w1
          ELSE Write(w1, Append(w1.ledger, st), w1.schema)

\* markMigrationRolledBack(): DELETE FROM table WHERE name = ?
markMigrationRolledBack(w, st) ==
  LET w1 == Call(w, "markMigrationRolledBack", st.name)
      keep(r) == r.name # st.name
  IN IF Failed(w1) THEN w1
     ELSE Write(w1, SelectSeq(w1.ledger, keep), w1.schema)

\* Variant: BEGIN that opens no transaction, every later write autocommits
beginTransactionAutocommit(w) == Call(w, "beginTransaction", "")

beginTransaction(w) ==
  LET w1 == Call(w, "beginTransaction", "")
  IN IF Failed(w1) THEN w1 ELSE [w1 EXCEPT !.inTx = TRUE]

\* Variant: COMMIT that resolves without making the writes durable
commitTransactionLost(w) ==
  LET w1 == Call(w, "commitTransaction", "")
  IN IF Failed(w1) THEN w1
     ELSE [w1 EXCEPT !.inTx = FALSE, !.ledger = w1.cLedger,
                     !.schema = w1.cSchema]

commitTransaction(w) ==
  LET w1 == Call(w, "commitTransaction", "")
  IN IF Failed(w1) THEN w1
     ELSE [w1 EXCEPT !.inTx = FALSE, !.cLedger = w1.ledger, !.cSchema = w1.schema]

\* rollbackTransaction(), as the Runner calls it from its catch block: the
\* pending exception stays the original one whatever happens here.
rollbackTransaction(w) ==
  IF w.rbFail
  THEN Logged(w, "rollbackTransaction", "", "fault")
  ELSE [Logged(w, "rollbackTransaction", "", "ok")
          EXCEPT !.inTx = FALSE, !.ledger = w.cLedger, !.schema = w.cSchema]

----------------------------------------------------------------------------
(* Migration runner *)

\* Variant: the name is put in front of the names collected so far
pushFront(w, n) == [w EXCEPT !.acc = <<n>> \o @]

push(w, n) == [w EXCEPT !.acc = Append(@, n)]

\* Variant: the catch block attempts no rollback of the transaction
runnerCatchSilent(w, dryRun) ==
  [w EXCEPT !.res = [success |-> FALSE, names |-> w.acc, error |-> w.err],
            !.err = NoErr]

\* Variant: the catch block reports the failure of its rollback attempt
runnerCatchReportingRollback(w, dryRun) ==
  LET w1 == IF dryRun THEN w ELSE rollbackTransaction(w)
  IN [w1 EXCEPT !.res = [success |-> FALSE, names |-> w.acc,
                         error |-> IF ~dryRun /\ w.rbFail
                                   THEN <<"fault", "rollbackTransaction">>
                                   ELSE w.err],
                !.err = NoErr]

\* Variant: the catch block commits what was done before the failure
runnerCatchCommitting(w, dryRun) ==
  LET w1 == IF dryRun THEN w
            ELSE [w EXCEPT !.inTx = FALSE, !.cLedger = w.ledger, !.cSchema = w.schema]
  IN [w1 EXCEPT !.res = [success |-> FALSE, names |-> w.acc, error |-> w.err],
                !.err = NoErr]

\* The catch block of runMigrations / rollbackMigrations: attempt a rollback
\* of the transaction (not in dry-run), swallow its failure, and return
\* success=false with the names accumulated so far and the original error.
runnerCatch(w, dryRun) ==
  LET w1 == IF dryRun THEN w ELSE rollbackTransaction(w)
  IN [w1 EXCEPT !.res = [success |-> FALSE, names |-> w.acc, error |-> w.err],
                !.err = NoErr]

\* The normal exit of runMigrations / rollbackMigrations
runnerReturn(w) ==
  [w EXCEPT !.res = [success |-> TRUE, names |-> w.acc, error |-> NoErr]]

\* The for loop of runMigrations, from position i of the batch
RECURSIVE runLoop(_, _, _, _)
runLoop(w, batch, i, dryRun) ==
  IF i > Len(batch) THEN w
  ELSE LET m == batch[i] IN
    IF ~validate(m) THEN Throw(w, <<"Invalid migration", m.name>>)
    ELSE IF dryRun THEN runLoop(push(w, m.name), batch, i + 1, dryRun)
    ELSE LET w1 == execute(w, "up", m.name) IN
      IF Failed(w1) THEN w1
      ELSE LET w2 == markMigrationApplied(w1, toStatus(m)) IN
        IF Failed(w2) THEN w2
        ELSE runLoop(push(w2, m.name), batch, i + 1, dryRun)

\* Variant: the batch is sorted by timestamp before it is run
runMigrationsSorting(w, batch, dryRun) ==
  LET w0 == [w EXCEPT !.acc = <<>>]
      w1 == IF dryRun THEN w0 ELSE beginTransaction(w0)
      w2 == IF Failed(w1) THEN w1 ELSE runLoop(w1, SortAsc(batch), 1, dryRun)
      w3 == IF Failed(w2) \/ dryRun THEN w2 ELSE commitTransaction(w2)
  IN IF Failed(w3) THEN runnerCatch(w3, dryRun) ELSE runnerReturn(w3)

runMigrations(w, batch, dryRun) ==
  LET w0 == [w EXCEPT !.acc = <<>>]
      w1 == IF dryRun THEN w0 ELSE beginTransaction(w0)
      w2 == IF Failed(w1) THEN w1 ELSE runLoop(w1, batch, 1, dryRun)
      w3 == IF Failed(w2) \/ dryRun THEN w2 ELSE commitTransaction(w2)
  IN IF Failed(w3) THEN runnerCatch(w3, dryRun) ELSE runnerReturn(w3)

\* The for loop of rollbackMigrations, from position i of the list
RECURSIVE rollbackLoop(_, _, _, _)
rollbackLoop(w, batch, i, dryRun) ==
  IF i > Len(batch) THEN w
  ELSE LET m == batch[i] IN
    IF dryRun THEN rollbackLoop(push(w, m.name), batch, i + 1, dryRun)
    ELSE LET w1 == execute(w, "down", m.name) IN
      IF Failed(w1) THEN w1
      ELSE LET w2 == markMigrationRolledBack(w1, toStatus(m)) IN
        IF Failed(w2) THEN w2
        ELSE rollbackLoop(push(w2, m.name), batch, i + 1, dryRun)

\* Variant: the list is rolled back without opening a transaction first
rollbackMigrationsUnbracketed(w, batch, dryRun) ==
  LET w0 == [w EXCEPT !.acc = <<>>]
      w2 == rollbackLoop(w0, batch, 1, dryRun)
      w3 == IF Failed(w2) \/ dryRun THEN w2 ELSE commitTransaction(w2)
  IN IF Failed(w3) THEN runnerCatch(w3, dryRun) ELSE runnerReturn(w3)

rollbackMigrations(w, batch, dryRun) ==
  LET w0 == [w EXCEPT !.acc = <<>>]
      w1 == IF dryRun THEN w0 ELSE beginTransaction(w0)
      w2 == IF Failed(w1) THEN w1 ELSE rollbackLoop(w1, batch, 1, dryRun)
      w3 == IF Failed(w2) \/ dryRun THEN w2 ELSE commitTransaction(w2)
  IN IF Failed(w3) THEN runnerCatch(w3, dryRun) ELSE runnerReturn(w3)

----------------------------------------------------------------------------
(* Orchestrator (class Latter) *)

\* initialize(): adapter.connect(), then adapter.createMigrationsTable()
initialize(w) ==
  LET w1 == connect(w)
  IN IF Failed(w1) THEN w1 ELSE createMigrationsTable(w1)

\* loader.loadMigrations() as a call that can fail (unreadable directory)
callLoad(w) == Call(w, "loadMigrations", "")

HasName(s, n) == \E i \in 1..Len(s) : s[i].name = n

\* Array.prototype.find(m => m.name === n): the first match
FindByName(s, n) ==
  s[CHOOSE i \in 1..Len(s) : s[i].name = n /\ \A j \in 1..(i - 1) : s[j].name # n]

\* Variant: the pending set computed without looking at the ledger
getPendingMigrationsUnfiltered(migrations, applied) == SortAsc(migrations)

\* getPendingMigrations(): loaded migrations whose name is not applied, sorted
getPendingMigrations(migrations, applied) ==
  LET notApplied(m) == ~HasName(applied, m.name)
  IN SortAsc(SelectSeq(migrations, notApplied))

orphanedMigrations(migrations, applied) ==
  LET noFile(am) == ~HasName(migrations, am.name)
  IN SelectSeq(applied, noFile)

\* The forceSync loop: markMigrationRolledBack for each orphan, in order
RECURSIVE removeOrphans(_, _, _)
removeOrphans(w, orphans, i) ==
  IF i > Len(orphans) THEN w
  ELSE LET w1 == markMigrationRolledBack(w, orphans[i])
       IN IF Failed(w1) THEN w1 ELSE removeOrphans(w1, orphans, i + 1)

\* Variant: orphans without a flag are tolerated instead of reported
handleOutOfSyncMigrationsLenient(w, migrations, applied, opts) ==
  LET orphans == orphanedMigrations(migrations, applied)
  IN IF Len(orphans) > 0 /\ opts.forceSync THEN removeOrphans(w, orphans, 1)
     ELSE w

\* Variant: skipOutOfSync is tested before forceSync
handleOutOfSyncMigrationsSkipFirst(w, migrations, applied, opts) ==
  LET orphans == orphanedMigrations(migrations, applied)
  IN IF Len(orphans) = 0 THEN w
     ELSE IF opts.skipOutOfSync THEN w
     ELSE IF opts.forceSync THEN removeOrphans(w, orphans, 1)
     ELSE Throw(w, <<"out of sync">> \o NamesOf(orphans))

\* handleOutOfSyncMigrations(): forceSync is tested first, then skipOutOfSync
handleOutOfSyncMigrations(w, migrations, applied, opts) ==
  LET orphans == orphanedMigrations(migrations, applied)
  IN IF Len(orphans) = 0 THEN w
     ELSE IF opts.forceSync THEN removeOrphans(w, orphans, 1)
     ELSE IF opts.skipOutOfSync THEN w
     ELSE Throw(w, <<"out of sync">> \o NamesOf(orphans))

\* Variant: migrate() / rollback() without their catch block
orchestratorRethrow(w) == w

\* The catch block of migrate() / rollback(): a result, never an exception
orchestratorCatch(w) ==
  [w EXCEPT !.res = [success |-> FALSE, names |-> <<>>, error |-> w.err],
            !.err = NoErr]

emptyResult(w) ==
  [w EXCEPT !.res = [success |-> TRUE, names |-> <<>>, error |-> NoErr]]

\* migrate()
migrate(w, d, opts) ==
  LET w1 == initialize(w)
      w2 == IF Failed(w1) THEN w1 ELSE callLoad(w1)
      migrations == loadMigrations(d)
      w3 == IF Failed(w2) THEN w2 ELSE getAppliedMigrations(w2)
      applied == appliedRows(w3)
      w4 == IF Failed(w3) THEN w3
            ELSE handleOutOfSyncMigrations(w3, migrations, applied, opts)
      pending == getPendingMigrations(migrations, applied)
  IN IF Failed(w4) THEN orchestratorCatch(w4)
     ELSE IF Len(pending) = 0 THEN emptyResult(w4)
     ELSE runMigrations(w4, pending, opts.dryRun)

\* Variant: the prefix is taken without sorting descending first
migrationsToRollbackUnsorted(applied, steps) == Slice0(applied, steps)

\* appliedMigrations.sort((a, b) => b.timestamp - a.timestamp).slice(0, steps)
migrationsToRollback(applied, steps) == Slice0(SortDesc(applied), steps)

\* The map over migrationsToRollback: the first entry without a loaded
\* migration throws.
missingFiles(sel, all) ==
  LET missing(am) == ~HasName(all, am.name)
  IN SelectSeq(sel, missing)

fullMigrationsToRollback(sel, all) ==
  [i \in 1..Len(sel) |-> FindByName(all, sel[i].name)]

\* Variant: selected entries without a file are skipped instead of reported
rollbackSkippingMissing(w, d, opts, steps) ==
  LET w1 == initialize(w)
      w2 == IF Failed(w1) THEN w1 ELSE getAppliedMigrations(w1)
      all == loadMigrations(d)
      hasFile(am) == HasName(all, am.name)
      sel == SelectSeq(migrationsToRollback(appliedRows(w2), steps), hasFile)
      w3 == IF Failed(w2) \/ Len(sel) = 0 THEN w2 ELSE callLoad(w2)
  IN IF Failed(w3) THEN orchestratorCatch(w3)
     ELSE IF Len(sel) = 0 THEN emptyResult(w3)
     ELSE rollbackMigrations(w3, fullMigrationsToRollback(sel, all), opts.dryRun)

\* rollback(steps)
rollback(w, d, opts, steps) ==
  LET w1 == initialize(w)
      w2 == IF Failed(w1) THEN w1 ELSE getAppliedMigrations(w1)
      sel == migrationsToRollback(appliedRows(w2), steps)
      w3 == IF Failed(w2) \/ Len(sel) = 0 THEN w2 ELSE callLoad(w2)
      all == loadMigrations(d)
      miss == missingFiles(sel, all)
  IN IF Failed(w3) THEN orchestratorCatch(w3)
     ELSE IF Len(sel) = 0 THEN emptyResult(w3)
     ELSE IF Len(miss) > 0
          THEN orchestratorCatch(Throw(w3, <<"Migration file not found for", miss[1].name>>))
     ELSE rollbackMigrations(w3, fullMigrationsToRollback(sel, all), opts.dryRun)

\* Variant: the inner try/catch of status() is missing
swallowNothing(w) == w

\* The inner try/catch of status(): a reconciliation error is swallowed
swallow(w) == [w EXCEPT !.err = NoErr]

\* Variant: the status list is projected from the ledger rows
statusListOfLedger(migrations, applied) ==
  [i \in 1..Len(applied) |->
     [name |-> applied[i].name, applied |-> TRUE, appliedAt |-> TRUE]]

\* migration.toStatus(!!applied, applied?.appliedAt) for each loaded migration
statusList(migrations, applied) ==
  [i \in 1..Len(migrations) |->
     [name |-> migrations[i].name,
      applied |-> HasName(applied, migrations[i].name),
      appliedAt |-> HasName(applied, migrations[i].name)]]

\* status(): the world after the call; it rejects iff Failed
status(w, d, opts) ==
  LET w1 == initialize(w)
      w2 == IF Failed(w1) THEN w1 ELSE callLoad(w1)
      w3 == IF Failed(w2) THEN w2 ELSE getAppliedMigrations(w2)
  IN IF Failed(w3) THEN w3
     ELSE swallow(handleOutOfSyncMigrations(w3, loadMigrations(d), appliedRows(w3), opts))

\* What status() resolves to (read from the ledger as it was fetched)
statusResult(w, d) ==
  IF Failed(initialize(w)) \/ Failed(status(w, d, options)) THEN <<>>
  ELSE statusList(loadMigrations(d), SortAsc(w.ledger))

\* Variant: markAsApplied runs the up body before it records the migration
markAsAppliedExecuting(w, d, n) ==
  LET w1 == initialize(w)
      w2 == IF Failed(w1) THEN w1 ELSE callLoad(w1)
      migrations == loadMigrations(d)
      w3 == IF Failed(w2) \/ ~HasName(migrations, n) THEN w2
            ELSE execute(w2, "up", n)
  IN IF Failed(w3) THEN w3
     ELSE IF ~HasName(migrations, n) THEN Throw(w3, <<"Migration not found", n>>)
     ELSE markMigrationApplied(w3, toStatus(FindByName(migrations, n)))

\* markAsApplied(name): the world after the call; it rejects iff Failed
markAsApplied(w, d, n) ==
  LET w1 == initialize(w)
      w2 == IF Failed(w1) THEN w1 ELSE callLoad(w1)
      migrations == loadMigrations(d)
  IN IF Failed(w2) THEN w2
     ELSE IF ~HasName(migrations, n) THEN Throw(w2, <<"Migration not found", n>>)
     ELSE markMigrationApplied(w2, toStatus(FindByName(migrations, n)))

----------------------------------------------------------------------------
(* The adapter objects.  Each of the three adapters keeps a handle to its  *)
(* database (db, poolClient, connection) and the flag isConnected; the     *)
(* Postgres adapter keeps its pool besides.  A method returns the object   *)
(* it leaves, the error it rejects with (Resolved when it resolves) and the   *)
(* statements it sent to the database.  Any call into the driver library   *)
(* may fail; `failAt` is the ordinal of the driver call that does.         *)
(* `open` counts what the object has obtained from its driver and not      *)
(* given back: Database objects not closed, Pools not ended, connections   *)
(* not ended.  A field assigned anew drops its old value without closing   *)
(* it.                                                                     *)

Kinds == {"sqlite", "postgres", "mysql"}

\* The most driver calls one connect() makes (MySQL: createConnection and
\* two SET SESSION statements)
ConnectSteps == 3

\* An object is not asked to connect again once it holds this many
MaxOpen == 3

Statements == {"SELECT 1", "INSERT"}

\* The error of a call that resolves
Resolved == ""

NotConnected == "Database not connected"

NewAdapter(k) ==
  [kind |-> k, handle |-> FALSE, pool |-> FALSE, isConnected |-> FALSE,
   open |-> 0]

Ret(a, err, sent) == [adapter |-> a, error |-> err, sent |-> sent]

\* A statement handed to the driver: inside try/catch, rethrown under msg
Send(a, sql, fail, msg) ==
  Ret(a, IF fail THEN msg ELSE Resolved, <<sql>>)

SQLiteAdapter_connect(a, failAt) ==
  IF failAt = 1
  THEN Ret(a, "Failed to connect to SQLite database", <<>>)
  ELSE IF failAt = 2
  THEN Ret([a EXCEPT !.handle = TRUE, !.open = @ + 1],
           "Failed to connect to SQLite database", <<"PRAGMA">>)
  ELSE Ret([a EXCEPT !.handle = TRUE, !.isConnected = TRUE, !.open = @ + 1],
           Resolved, <<"PRAGMA">>)

\* Database.close() does not throw unless asked to
SQLiteAdapter_disconnect(a, fail) ==
  IF a.handle /\ a.isConnected
  THEN Ret([a EXCEPT !.handle = FALSE, !.isConnected = FALSE,
                     !.open = @ - 1], Resolved, <<>>)
  ELSE Ret(a, Resolved, <<>>)

SQLiteAdapter_execute(a, sql, fail) ==
  IF ~a.handle \/ ~a.isConnected
  THEN Ret(a, NotConnected, <<>>)
  ELSE Send(a, sql, fail, "SQL execution failed")

SQLiteAdapter_query(a, sql, fail) ==
  IF ~a.handle \/ ~a.isConnected
  THEN Ret(a, NotConnected, <<>>)
  ELSE Send(a, sql, fail, "SQL query failed")

SQLiteAdapter_beginTransaction(a, fail) ==
  SQLiteAdapter_execute(a, "BEGIN TRANSACTION", fail)

SQLiteAdapter_commitTransaction(a, fail) ==
  SQLiteAdapter_execute(a, "COMMIT", fail)

SQLiteAdapter_rollbackTransaction(a, fail) ==
  SQLiteAdapter_execute(a, "ROLLBACK", fail)

\* new Pool() connects nothing; pool.connect() is the one driver call
PostgresAdapter_connect(a, failAt) ==
  IF failAt = 1
  THEN Ret([a EXCEPT !.pool = TRUE, !.open = @ + 1],
           "Failed to connect to PostgreSQL database", <<>>)
  ELSE Ret([a EXCEPT !.pool = TRUE, !.handle = TRUE, !.isConnected = TRUE,
                     !.open = @ + 1],
           Resolved, <<>>)

\* The client is released first; a failure of pool.end() is logged and
\* leaves pool and isConnected as they were
PostgresAdapter_disconnect(a, fail) ==
  LET released == IF a.handle /\ a.isConnected
                  THEN [a EXCEPT !.handle = FALSE] ELSE a
  IN IF ~released.pool THEN Ret(released, Resolved, <<>>)
     ELSE IF fail THEN Ret(released, Resolved, <<>>)
     ELSE Ret([released EXCEPT !.pool = FALSE, !.isConnected = FALSE,
                               !.open = @ - 1],
              Resolved, <<>>)

PostgresAdapter_execute(a, sql, fail) ==
  IF ~a.handle \/ ~a.isConnected
  THEN Ret(a, NotConnected, <<>>)
  ELSE Send(a, sql, fail, "SQL execution failed")

PostgresAdapter_query(a, sql, fail) ==
  IF ~a.handle \/ ~a.isConnected
  THEN Ret(a, NotConnected, <<>>)
  ELSE Send(a, sql, fail, "SQL query failed")

PostgresAdapter_beginTransaction(a, fail) ==
  IF ~a.handle \/ ~a.isConnected
  THEN Ret(a, NotConnected, <<>>)
  ELSE Send(a, "BEGIN", fail, "Failed to begin transaction")

PostgresAdapter_commitTransaction(a, fail) ==
  IF ~a.handle \/ ~a.isConnected
  THEN Ret(a, NotConnected, <<>>)
  ELSE Send(a, "COMMIT", fail, "Failed to commit transaction")

PostgresAdapter_rollbackTransaction(a, fail) ==
  IF ~a.handle \/ ~a.isConnected
  THEN Ret(a, NotConnected, <<>>)
  ELSE Send(a, "ROLLBACK", fail, "Failed to rollback transaction")

\* isConnected is set as soon as createConnection() resolves, before the two
\* SET SESSION statements
MySQLAdapter_connect(a, failAt) ==
  LET opened == [a EXCEPT !.handle = TRUE, !.isConnected = TRUE,
                          !.open = @ + 1]
  IN IF failAt = 1
     THEN Ret(a, "Failed to connect to MySQL database", <<>>)
     ELSE IF failAt = 2
     THEN Ret(opened, "Failed to connect to MySQL database",
              <<"SET SESSION sql_mode">>)
     ELSE IF failAt = 3
     THEN Ret(opened, "Failed to connect to MySQL database",
              <<"SET SESSION sql_mode", "SET SESSION time_zone">>)
     ELSE Ret(opened, Resolved,
              <<"SET SESSION sql_mode", "SET SESSION time_zone">>)

\* A failure of connection.end() is logged and leaves the fields as they were
MySQLAdapter_disconnect(a, fail) ==
  IF a.handle /\ a.isConnected
  THEN IF fail THEN Ret(a, Resolved, <<>>)
       ELSE Ret([a EXCEPT !.handle = FALSE, !.isConnected = FALSE,
                          !.open = @ - 1],
                Resolved, <<>>)
  ELSE Ret(a, Resolved, <<>>)

MySQLAdapter_execute(a, sql, fail) ==
  IF ~a.handle \/ ~a.isConnected
  THEN Ret(a, NotConnected, <<>>)
  ELSE Send(a, sql, fail, "SQL execution failed")

MySQLAdapter_query(a, sql, fail) ==
  IF ~a.handle \/ ~a.isConnected
  THEN Ret(a, NotConnected, <<>>)
  ELSE Send(a, sql, fail, "SQL query failed")

MySQLAdapter_beginTransaction(a, fail) ==
  IF ~a.handle \/ ~a.isConnected
  THEN Ret(a, NotConnected, <<>>)
  ELSE Send(a, "BEGIN", fail, "Failed to begin transaction")

MySQLAdapter_commitTransaction(a, fail) ==
  IF ~a.handle \/ ~a.isConnected
  THEN Ret(a, NotConnected, <<>>)
  ELSE Send(a, "COMMIT", fail, "Failed to commit transaction")

MySQLAdapter_rollbackTransaction(a, fail) ==
  IF ~a.handle \/ ~a.isConnected
  THEN Ret(a, NotConnected, <<>>)
  ELSE Send(a, "ROLLBACK", fail, "Failed to rollback transaction")

\* The DatabaseAdapter interface: the method of the object's class
SqlCalls ==
  {"execute", "query", "beginTransaction", "commitTransaction",
   "rollbackTransaction"}

adapterConnect(a, failAt) ==
  CASE a.kind = "sqlite" -> SQLiteAdapter_connect(a, failAt)
    [] a.kind = "postgres" -> PostgresAdapter_connect(a, failAt)
    [] a.kind = "mysql" -> MySQLAdapter_connect(a, failAt)

adapterDisconnect(a, fail) ==
  CASE a.kind = "sqlite" -> SQLiteAdapter_disconnect(a, fail)
    [] a.kind = "postgres" -> PostgresAdapter_disconnect(a, fail)
    [] a.kind = "mysql" -> MySQLAdapter_disconnect(a, fail)

adapterCall(a, op, sql, fail) ==
  IF a.kind = "sqlite"
  THEN CASE op = "execute" -> SQLiteAdapter_execute(a, sql, fail)
         [] op = "query" -> SQLiteAdapter_query(a, sql, fail)
         [] op = "beginTransaction" -> SQLiteAdapter_beginTransaction(a, fail)
         [] op = "commitTransaction" -> SQLiteAdapter_commitTransaction(a, fail)
         [] op = "rollbackTransaction" ->
              SQLiteAdapter_rollbackTransaction(a, fail)
  ELSE IF a.kind = "postgres"
  THEN CASE op = "execute" -> PostgresAdapter_execute(a, sql, fail)
         [] op = "query" -> PostgresAdapter_query(a, sql, fail)
         [] op = "beginTransaction" -> PostgresAdapter_beginTransaction(a, fail)
         [] op = "commitTransaction" ->
              PostgresAdapter_commitTransaction(a, fail)
         [] op = "rollbackTransaction" ->
              PostgresAdapter_rollbackTransaction(a, fail)
  ELSE CASE op = "execute" -> MySQLAdapter_execute(a, sql, fail)
         [] op = "query" -> MySQLAdapter_query(a, sql, fail)
         [] op = "beginTransaction" -> MySQLAdapter_beginTransaction(a, fail)
         [] op = "commitTransaction" -> MySQLAdapter_commitTransaction(a, fail)
         [] op = "rollbackTransaction" ->
              MySQLAdapter_rollbackTransaction(a, fail)

\* What the caller of an adapter knows.  `ready`: some connect() has resolved
\* and disconnect() has not been called since.
NoSession ==
  [ready |-> FALSE, op |-> "none", error |-> Resolved, sent |-> <<>>]

Seen(ready, op, r) ==
  [ready |-> ready, op |-> op, error |-> r.error, sent |-> r.sent]

----------------------------------------------------------------------------
(* State machine *)

Options == [dryRun : BOOLEAN, forceSync : BOOLEAN, skipOutOfSync : BOOLEAN]

\* What the caller keeps of an operation once it has taken its result: for a
\* migrate(), whether it succeeded, whether it started from an empty ledger
\* and the up bodies it executed.
NoPrev == [op |-> "other", success |-> FALSE, fresh |-> FALSE, ups |-> <<>>]

Summary(r) ==
  LET up(e) == e.call = "executeUp" /\ e.outcome = "ok"
  IN IF r.op # "migrate" THEN NoPrev
     ELSE [op |-> "migrate", success |-> r.success, fresh |-> (r.before = <<>>),
           ups |-> NamesOf(SelectSeq(r.log, up))]

\* No operation is in progress and no result waits to be taken
NoOp ==
  [op |-> "none", steps |-> 0, arg |-> "", success |-> FALSE, names |-> <<>>,
   error |-> NoErr, threw |-> FALSE, out |-> <<>>, log |-> <<>>,
   before |-> <<>>, schemaBefore |-> {}, after |-> NoPrev]

Idle == last.op = "none"

\* The record of an operation that ended in world w.  `after` is the summary
\* of the operation directly before it on the same instance and the same
\* directory.
Record(op, steps, arg, w, out) ==
  [op |-> op, steps |-> steps, arg |-> arg,
   success |-> w.res.success, names |-> w.res.names,
   error |-> IF Failed(w) THEN w.err ELSE w.res.error,
   threw |-> Failed(w), out |-> out, log |-> w.log,
   before |-> ledger, schemaBefore |-> schema,
   after |-> last.after]

\* What an operation leaves in the database: the committed state.  A
\* transaction left open is never committed (the next operation connects anew).
Commit(w) ==
  /\ table' = w.cTable
  /\ ledger' = w.cLedger
  /\ schema' = w.cSchema

Init ==
  /\ dir = [n \in Names |-> NoFile]
  /\ table = FALSE
  /\ ledger = <<>>
  /\ schema = {}
  /\ options \in Options
  /\ last = NoOp
  /\ adapter = NewAdapter("sqlite")
  /\ session = NoSession
  /\ orchestrators = <<>>
  /\ migrationsDir = "directory"

\* new Latter(options): every CLI command constructs its own instance
Construct(o) ==
  /\ Idle
  /\ o # options
  /\ options' = o
  /\ last' = NoOp
  /\ UNCHANGED <<orchestrators, migrationsDir, adapter, session, dir, table, ledger, schema>>

\* A migration file (JSON file or SQL pair) appears in the directory
AddFile(n, f) ==
  /\ Idle
  /\ dir[n] = NoFile
  /\ dir' = [dir EXCEPT ![n] = f]
  /\ last' = NoOp
  /\ UNCHANGED <<orchestrators, migrationsDir, adapter, session, table, ledger, schema, options>>

\* A migration file is deleted from the directory
RemoveFile(n) ==
  /\ Idle
  /\ dir[n] # NoFile
  /\ dir' = [dir EXCEPT ![n] = NoFile]
  /\ last' = NoOp
  /\ UNCHANGED <<orchestrators, migrationsDir, adapter, session, table, ledger, schema, options>>

\* latter.initialize(): rejects with the error of the call that failed
Initialize(f) ==
  /\ Idle
  /\ LET w == initialize(World(f, FALSE))
     IN /\ Commit(w)
        /\ last' = Record("initialize", 0, "", w, <<>>)
  /\ UNCHANGED <<orchestrators, migrationsDir, adapter, session, dir, options>>

Migrate(f, rb) ==
  /\ Idle
  /\ LET w == migrate(World(f, rb), dir, options)
     IN /\ Commit(w)
        /\ last' = Record("migrate", 0, "", w, <<>>)
  /\ UNCHANGED <<orchestrators, migrationsDir, adapter, session, dir, options>>

Rollback(steps, f, rb) ==
  /\ Idle
  /\ LET w == rollback(World(f, rb), dir, options, steps)
     IN /\ Commit(w)
        /\ last' = Record("rollback", steps, "", w, <<>>)
  /\ UNCHANGED <<orchestrators, migrationsDir, adapter, session, dir, options>>

Status(f) ==
  /\ Idle
  /\ LET w == status(World(f, FALSE), dir, options)
     IN /\ Commit(w)
        /\ last' = Record("status", 0, "", w, statusResult(World(f, FALSE), dir))
  /\ UNCHANGED <<orchestrators, migrationsDir, adapter, session, dir, options>>

MarkAsApplied(n, f) ==
  /\ Idle
  /\ LET w == markAsApplied(World(f, FALSE), dir, n)
     IN /\ Commit(w)
        /\ last' = Record("markAsApplied", 0, n, w, <<>>)
  /\ UNCHANGED <<orchestrators, migrationsDir, adapter, session, dir, options>>

\* The caller takes the result of the operation that ended and goes on
\* (another operation on this instance, a new instance, or a change of the
\* directory)
Settle ==
  /\ ~Idle
  /\ last' = [NoOp EXCEPT !.after = Summary(last)]
  /\ UNCHANGED <<orchestrators, migrationsDir, adapter, session, dir, table, ledger, schema, options>>

\* The database and the file system work: no call fails
Next ==
  \/ \E o \in Options : Construct(o)
  \/ \E n \in Names : \E f \in FileStates(n) : AddFile(n, f)
  \/ \E n \in Names : RemoveFile(n)
  \/ Initialize(0)
  \/ Migrate(0, FALSE)
  \/ \E s \in -1..MaxSteps : Rollback(s, 0, FALSE)
  \/ Status(0)
  \/ \E n \in Names : MarkAsApplied(n, 0)
  \/ Settle

Spec == Init /\ [][Next]_vars

\* Any single adapter call of an operation may fail
FaultNext ==
  \/ \E n \in Names : \E f \in FileStates(n) : AddFile(n, f)
  \/ \E n \in Names : RemoveFile(n)
  \/ \E f \in FailPoints : Initialize(f)
  \/ \E f \in FailPoints, rb \in BOOLEAN : Migrate(f, rb)
  \/ \E s \in 1..MaxSteps, f \in FailPoints, rb \in BOOLEAN : Rollback(s, f, rb)
  \/ Settle

FaultSpec == Init /\ [][FaultNext]_vars

\* loader.loadMigrations() on its own; reading the directory may fail
Load(f) ==
  /\ Idle
  /\ LET w0 == callLoad(World(f, FALSE))
         w == IF ~Failed(w0) /\ readFails(dir)
              THEN Throw(w0, <<"fault", "readFile">>) ELSE w0
     IN last' = Record("loadMigrations", 0, "", w,
                       IF Failed(w) THEN <<>> ELSE loadMigrations(dir))
  /\ UNCHANGED <<orchestrators, migrationsDir, adapter, session, dir, table, ledger, schema, options>>

\* The loader over every directory content
LoaderNext ==
  \/ \E n \in Names : \E f \in LoaderFileStates(n) : AddFile(n, f)
  \/ \E n \in Names : RemoveFile(n)
  \/ \E f \in 0..1 : Load(f)
  \/ Settle

LoaderInit ==
  /\ Init
  /\ options = [dryRun |-> FALSE, forceSync |-> FALSE, skipOutOfSync |-> FALSE]

LoaderSpec == LoaderInit /\ [][LoaderNext]_vars

\* What is kept of the Migration constructed before: its three parts and
\* its version, if the version was derived
NoMigration == [name |-> "", up |-> "", down |-> "", version |-> "none"]

Derived(r) ==
  IF r.op = "newMigration" /\ ~("version" \in r.options.given)
  THEN [name |-> r.migration.name, up |-> r.migration.up,
        down |-> r.migration.down, version |-> r.migration.version]
  ELSE NoMigration

\* new Migration(o), followed by validate() on the new object
NewMigration(o, now) ==
  /\ LET m == constructor(o, now)
     IN last' = [op |-> "newMigration", options |-> o, now |-> now,
                 migration |-> m, valid |-> validate(m),
                 previous |-> Derived(last)]
  /\ UNCHANGED <<orchestrators, migrationsDir, adapter, session, dir, table, ledger, schema, options>>

MigrationNext == \E o \in MigrationOptions, now \in Clock : NewMigration(o, now)

\* The Migration entity on its own
MigrationSpec == LoaderInit /\ [][MigrationNext]_vars

\* The sample migration `latter init` writes: the pair
\* <timestamp>_001_initial_setup_up.sql / _down.sql, comments only
SampleName == AllNames[1]

SampleFile ==
  [kind |-> "sql", timestamp |-> TsOf[SampleName], up |-> "UP", down |-> "DOWN",
   prefix |-> PrefixOf(SampleName), field |-> 0]

\* fs.stat(path).then(stat => stat.isDirectory()): rejects on a path that
\* does not exist
statIsDirectory(path) ==
  CASE path = "absent" -> [threw |-> TRUE, value |-> FALSE]
    [] path = "directory" -> [threw |-> FALSE, value |-> TRUE]
    [] path = "file" -> [threw |-> FALSE, value |-> FALSE]

\* fs.mkdir(path, {recursive: true}): creates what is missing, accepts a
\* directory that is there, rejects when the path is a file
mkdir(path) ==
  IF path = "file" THEN [threw |-> TRUE, path |-> path]
  ELSE [threw |-> FALSE, path |-> "directory"]

\* The init command.  `database` is whether --database was given; f is the
\* adapter call of latter.initialize() that fails (0: none).  Everything
\* runs inside one try whose catch prints 'Initialization failed' and exits
\* with code 1.
CliInit(database, f) ==
  /\ Idle
  /\ LET st == statIsDirectory(migrationsDir)
         mk == IF st.threw \/ st.value
               THEN [threw |-> FALSE, path |-> migrationsDir]
               ELSE mkdir(migrationsDir)
         wrote == ~st.threw /\ ~st.value /\ ~mk.threw
         fsFailed == st.threw \/ mk.threw
         w0 == World(f, FALSE)
         w == IF fsFailed \/ ~database THEN w0 ELSE initialize(w0)
     IN /\ migrationsDir' = mk.path
        /\ dir' = IF wrote THEN [dir EXCEPT ![SampleName] = SampleFile] ELSE dir
        /\ Commit(w)
        /\ last' = [op |-> "init", database |-> database, fault |-> f,
                    pathBefore |-> migrationsDir,
                    wroteSample |-> wrote,
                    failed |-> fsFailed \/ Failed(w),
                    log |-> w.log]
  /\ UNCHANGED <<orchestrators, adapter, session, options>>

\* The user creates the migrations directory, or a file of that name
MakePath(kind) ==
  /\ Idle
  /\ migrationsDir = "absent"
  /\ migrationsDir' = kind
  /\ UNCHANGED <<orchestrators, dir, table, ledger, schema, options, last, adapter, session>>

\* The user removes the migrations path with all it holds
RemovePath ==
  /\ Idle
  /\ migrationsDir # "absent"
  /\ migrationsDir' = "absent"
  /\ dir' = [n \in Names |-> NoFile]
  /\ UNCHANGED <<orchestrators, table, ledger, schema, options, last, adapter, session>>

\* Files come and go only inside a directory
AddSqlFile(n, f) == migrationsDir = "directory" /\ AddFile(n, f)

CliNext ==
  \/ \E database \in BOOLEAN, f \in 0..2 : CliInit(database, f)
  \/ \E kind \in {"directory", "file"} : MakePath(kind)
  \/ RemovePath
  \/ \E n \in Names : \E f \in FileStates(n) : AddSqlFile(n, f)
  \/ Settle

\* A new project: no migrations path yet, an empty database
CliStart ==
  /\ dir = [n \in Names |-> NoFile]
  /\ table = FALSE
  /\ ledger = <<>>
  /\ schema = {}
  /\ options = [dryRun |-> FALSE, forceSync |-> FALSE, skipOutOfSync |-> FALSE]
  /\ last = NoOp
  /\ adapter = NewAdapter("sqlite")
  /\ session = NoSession
  /\ orchestrators = <<>>
  /\ migrationsDir = "absent"

CliSpec == CliStart /\ [][CliNext]_vars

\* The batches a caller may hand to the Runner: Migrations of different
\* names in any order, valid or with an empty up body
RunnerMigrations ==
  {Migration(n, up, "DOWN", TsOf[n]) : n \in Names, up \in {"", "UP"}}

Batches ==
  {b \in UNION {[1..k -> RunnerMigrations] : k \in 0..NumNames} :
     \A i, j \in 1..Len(b) : i # j => b[i].name # b[j].name}

\* The record of a Runner call that ended in world w
RunnerRecord(op, batch, dryRun, w) ==
  [op |-> op, batch |-> batch, dryRun |-> dryRun,
   success |-> w.res.success, names |-> w.res.names,
   error |-> IF Failed(w) THEN w.err ELSE w.res.error,
   threw |-> Failed(w), log |-> w.log,
   before |-> ledger, schemaBefore |-> schema, after |-> NoPrev]

\* runner.runMigrations(batch, dryRun) on a connected adapter
RunMigrations(batch, dryRun, f, rb) ==
  /\ Idle
  /\ LET w == runMigrations(World(f, rb), batch, dryRun)
     IN /\ Commit(w)
        /\ last' = RunnerRecord("runMigrations", batch, dryRun, w)
  /\ UNCHANGED <<orchestrators, migrationsDir, adapter, session, dir, options>>

\* runner.rollbackMigrations(batch, dryRun) on a connected adapter
RollbackMigrations(batch, dryRun, f, rb) ==
  /\ Idle
  /\ LET w == rollbackMigrations(World(f, rb), batch, dryRun)
     IN /\ Commit(w)
        /\ last' = RunnerRecord("rollbackMigrations", batch, dryRun, w)
  /\ UNCHANGED <<orchestrators, migrationsDir, adapter, session, dir, options>>

\* The Runner on its own, over every batch and every single failure
RunnerNext ==
  \/ \E batch \in Batches, dryRun \in BOOLEAN, f \in FailPoints, rb \in BOOLEAN :
       RunMigrations(batch, dryRun, f, rb)
  \/ \E batch \in Batches, dryRun \in BOOLEAN, f \in FailPoints, rb \in BOOLEAN :
       RollbackMigrations(batch, dryRun, f, rb)
  \/ Settle

\* The database is connected and its migrations table exists
RunnerInit ==
  /\ dir = [n \in Names |-> NoFile]
  /\ table = TRUE
  /\ ledger = <<>>
  /\ schema = {}
  /\ options = [dryRun |-> FALSE, forceSync |-> FALSE, skipOutOfSync |-> FALSE]
  /\ last = NoOp
  /\ adapter = NewAdapter("sqlite")
  /\ session = NoSession
  /\ orchestrators = <<>>
  /\ migrationsDir = "directory"

RunnerSpec == RunnerInit /\ [][RunnerNext]_vars

\* An adapter object on its own: its life from construction on
AdapterInit ==
  /\ dir = [n \in Names |-> NoFile]
  /\ table = FALSE
  /\ ledger = <<>>
  /\ schema = {}
  /\ options = [dryRun |-> FALSE, forceSync |-> FALSE, skipOutOfSync |-> FALSE]
  /\ last = NoOp
  /\ adapter \in {NewAdapter(k) : k \in Kinds}
  /\ session = NoSession
  /\ orchestrators = <<>>
  /\ migrationsDir = "directory"

AdapterConnect(failAt) ==
  /\ adapter.open < MaxOpen
  /\ LET r == adapterConnect(adapter, failAt)
     IN /\ adapter' = r.adapter
        /\ session' = Seen(session.ready \/ r.error = Resolved, "connect", r)
  /\ UNCHANGED <<orchestrators, migrationsDir, dir, table, ledger, schema, options, last>>

AdapterDisconnect(fail) ==
  /\ LET r == adapterDisconnect(adapter, fail)
     IN /\ adapter' = r.adapter
        /\ session' = Seen(FALSE, "disconnect", r)
  /\ UNCHANGED <<orchestrators, migrationsDir, dir, table, ledger, schema, options, last>>

AdapterCall(op, sql, fail) ==
  /\ LET r == adapterCall(adapter, op, sql, fail)
     IN /\ adapter' = r.adapter
        /\ session' = Seen(session.ready, op, r)
  /\ UNCHANGED <<orchestrators, migrationsDir, dir, table, ledger, schema, options, last>>

AdapterNext ==
  \/ \E failAt \in 0..ConnectSteps : AdapterConnect(failAt)
  \/ \E fail \in BOOLEAN : AdapterDisconnect(fail)
  \/ \E op \in SqlCalls, sql \in Statements, fail \in BOOLEAN :
       AdapterCall(op, sql, fail)

AdapterSpec == AdapterInit /\ [][AdapterNext]_vars

\* One Latter instance from construction to close().  What its caller has
\* seen: the operation that returned last, how many of its connect() calls
\* resolved (counted up to MaxOpen) and whether any driver call failed.
PublicOperations == {"status", "migrate", "rollback"}

NewInstance ==
  [ready |-> FALSE, op |-> "none", error |-> Resolved, sent |-> <<>>,
   connects |-> 0, faults |-> FALSE]

Returned(op, r, ready, connects, fault) ==
  [ready |-> ready, op |-> op, error |-> r.error, sent |-> r.sent,
   connects |-> connects, faults |-> session.faults \/ fault]

\* status(), migrate() or rollback(1): each starts with initialize(), whose
\* first call is adapter.connect(); when connect() rejects the operation
\* fails at its first adapter call.
LatterOperation(op, failAt) ==
  /\ Idle
  /\ adapter.open < MaxOpen
  /\ LET r == adapterConnect(adapter, failAt)
         ok == r.error = Resolved
         w0 == World(IF ok THEN 0 ELSE 1, FALSE)
         w == CASE op = "status" -> status(w0, dir, options)
                [] op = "migrate" -> migrate(w0, dir, options)
                [] op = "rollback" -> rollback(w0, dir, options, 1)
     IN /\ adapter' = r.adapter
        /\ session' = Returned(op, r, session.ready \/ ok,
                               IF ok THEN Min(session.connects + 1, MaxOpen)
                               ELSE session.connects,
                               ~ok)
        /\ Commit(w)
        /\ last' = Record(op, IF op = "rollback" THEN 1 ELSE 0, "", w,
                          IF op = "status" THEN statusResult(w0, dir) ELSE <<>>)
  /\ UNCHANGED <<orchestrators, migrationsDir, dir, options>>

\* close(): adapter.disconnect()
LatterClose(fail) ==
  /\ Idle
  /\ LET r == adapterDisconnect(adapter, fail)
     IN /\ adapter' = r.adapter
        /\ session' = Returned("close", r, FALSE, session.connects, fail)
  /\ UNCHANGED <<orchestrators, migrationsDir, dir, table, ledger, schema, options, last>>

LifecycleInit ==
  /\ dir = [n \in Names |-> IF n = SampleName THEN SampleFile ELSE NoFile]
  /\ table = FALSE
  /\ ledger = <<>>
  /\ schema = {}
  /\ options = [dryRun |-> FALSE, forceSync |-> FALSE, skipOutOfSync |-> FALSE]
  /\ last = NoOp
  /\ adapter \in {NewAdapter(k) : k \in Kinds}
  /\ session = NewInstance
  /\ orchestrators = <<>>
  /\ migrationsDir = "directory"

LifecycleNext ==
  \/ \E op \in PublicOperations, failAt \in 0..ConnectSteps :
       LatterOperation(op, failAt)
  \/ \E fail \in BOOLEAN : LatterClose(fail)
  \/ Settle

LifecycleSpec == LifecycleInit /\ [][LifecycleNext]_vars

\* Two Latter instances, each in a process of its own, running migrate()
\* (not dry-run) against one database and one directory.  Each adapter call
\* is one step.  The database keeps the statements of a transaction to
\* itself until COMMIT; an INSERT of a name that another open transaction
\* has inserted waits for that transaction to end or is refused as busy.
Orchestrators == {1, 2}

Started ==
  [pc |-> "initialize", pending |-> <<>>, i |-> 1, rows |-> <<>>, ups |-> <<>>,
   acc |-> <<>>, committed |-> <<>>, success |-> FALSE, error |-> NoErr]

InTransaction(o) == o.pc \in {"execute", "mark", "commit", "catch"}

Other(p) == CHOOSE q \in Orchestrators : q # p

\* Variant: the name column of the migrations table is not UNIQUE
uniqueNotEnforced(rows, n) == FALSE

\* name TEXT NOT NULL UNIQUE: a second row of the name is refused
uniqueViolation(rows, n) == n \in Range(NamesOf(rows))

Becomes(p, o) == orchestrators' = [orchestrators EXCEPT ![p] = o]

Resolve(o, names) ==
  [o EXCEPT !.pc = "done", !.success = TRUE, !.acc = names]

Reject(o, error) ==
  [o EXCEPT !.pc = "done", !.success = FALSE, !.acc = <<>>, !.error = error]

\* The Runner's throw inside its try block
RunnerThrow(o, error) == [o EXCEPT !.pc = "catch", !.error = error]

\* initialize(): connect and CREATE TABLE IF NOT EXISTS
ConcurrentInitialize(p) ==
  /\ orchestrators[p].pc = "initialize"
  /\ table' = TRUE
  /\ Becomes(p, [orchestrators[p] EXCEPT !.pc = "plan"])
  /\ UNCHANGED <<dir, ledger, schema, options, last, adapter, session,
                 migrationsDir>>

\* loadMigrations(), getAppliedMigrations() (committed rows only),
\* handleOutOfSyncMigrations() and getPendingMigrations()
ConcurrentPlan(p) ==
  /\ orchestrators[p].pc = "plan"
  /\ LET migrations == loadMigrations(dir)
         applied == SortAsc(ledger)
         orphans == orphanedMigrations(migrations, applied)
         pending == getPendingMigrations(migrations, applied)
         o == orchestrators[p]
     IN Becomes(p,
          IF Len(orphans) > 0 /\ ~options.forceSync /\ ~options.skipOutOfSync
          THEN Reject(o, <<"out of sync">> \o NamesOf(orphans))
          ELSE IF Len(pending) = 0 THEN Resolve(o, <<>>)
          ELSE [o EXCEPT !.pc = "begin", !.pending = pending])
  /\ UNCHANGED <<dir, table, ledger, schema, options, last, adapter, session,
                 migrationsDir>>

\* runMigrations(): beginTransaction()
ConcurrentBegin(p) ==
  /\ orchestrators[p].pc = "begin"
  /\ Becomes(p, [orchestrators[p] EXCEPT !.pc = "execute", !.i = 1])
  /\ UNCHANGED <<dir, table, ledger, schema, options, last, adapter, session,
                 migrationsDir>>

\* The loop body up to adapter.execute(migration.up): validate, then
\* execute; with another transaction open the database may refuse as busy
ConcurrentExecute(p, busy) ==
  /\ orchestrators[p].pc = "execute"
  /\ busy => InTransaction(orchestrators[Other(p)])
  /\ LET o == orchestrators[p]
         m == o.pending[o.i]
     IN Becomes(p,
          IF ~validate(m) THEN RunnerThrow(o, <<"Invalid migration", m.name>>)
          ELSE IF busy THEN RunnerThrow(o, <<"fault", "executeUp">>)
          ELSE [o EXCEPT !.pc = "mark", !.ups = Append(@, m.name)])
  /\ UNCHANGED <<dir, table, ledger, schema, options, last, adapter, session,
                 migrationsDir>>

\* adapter.markMigrationApplied(status) and migrationsApplied.push(name)
ConcurrentMark(p, busy) ==
  /\ orchestrators[p].pc = "mark"
  /\ LET o == orchestrators[p]
         q == orchestrators[Other(p)]
         m == o.pending[o.i]
         held == InTransaction(q) /\ m.name \in Range(NamesOf(q.rows))
     IN /\ busy => InTransaction(q)
        /\ held => busy
        /\ Becomes(p,
             IF busy THEN RunnerThrow(o, <<"fault", "markMigrationApplied">>)
             ELSE IF uniqueViolation(ledger \o o.rows, m.name)
             THEN RunnerThrow(o, <<"UNIQUE constraint failed", m.name>>)
             ELSE [o EXCEPT !.rows = Append(@, toStatus(m)),
                            !.acc = Append(@, m.name),
                            !.i = @ + 1,
                            !.pc = IF o.i = Len(o.pending) THEN "commit"
                                   ELSE "execute"])
  /\ UNCHANGED <<dir, table, ledger, schema, options, last, adapter, session,
                 migrationsDir>>

\* commitTransaction(): the rows and the up bodies of the transaction become
\* durable; the call returns success with the names accumulated
ConcurrentCommit(p) ==
  /\ orchestrators[p].pc = "commit"
  /\ LET o == orchestrators[p]
     IN /\ ledger' = ledger \o o.rows
        /\ schema' = schema \cup Range(o.ups)
        /\ Becomes(p, [o EXCEPT !.pc = "done", !.success = TRUE,
                                !.committed = o.ups,
                                !.rows = <<>>, !.ups = <<>>])
  /\ UNCHANGED <<dir, table, options, last, adapter, session, migrationsDir>>

\* The catch block: rollbackTransaction(), then success=false with the names
\* accumulated and the error
ConcurrentCatch(p) ==
  /\ orchestrators[p].pc = "catch"
  /\ Becomes(p, [orchestrators[p] EXCEPT !.pc = "done", !.success = FALSE,
                                         !.rows = <<>>, !.ups = <<>>])
  /\ UNCHANGED <<dir, table, ledger, schema, options, last, adapter, session,
                 migrationsDir>>

ConcurrentInit ==
  /\ dir \in [Names -> UNION {FileStates(n) : n \in Names} \cup {NoFile}]
  /\ \A n \in Names : dir[n] \in FileStates(n) \cup {NoFile}
  /\ table = FALSE
  /\ ledger = <<>>
  /\ schema = {}
  /\ options = [dryRun |-> FALSE, forceSync |-> FALSE, skipOutOfSync |-> FALSE]
  /\ last = NoOp
  /\ adapter = NewAdapter("sqlite")
  /\ session = NoSession
  /\ migrationsDir = "directory"
  /\ orchestrators = [p \in Orchestrators |-> Started]

ConcurrentNext ==
  \E p \in Orchestrators :
    \/ ConcurrentInitialize(p)
    \/ ConcurrentPlan(p)
    \/ ConcurrentBegin(p)
    \/ \E busy \in BOOLEAN : ConcurrentExecute(p, busy)
    \/ \E busy \in BOOLEAN : ConcurrentMark(p, busy)
    \/ ConcurrentCommit(p)
    \/ ConcurrentCatch(p)

ConcurrentSpec == ConcurrentInit /\ [][ConcurrentNext]_vars

----------------------------------------------------------------------------
(* Properties.  They read the record `last` of the operation that just     *)
(* ended, the database it left, and the directory it ran against (an edit  *)
(* of the directory or a new instance resets `last`).                      *)

Entry(c, n, o) == [call |-> c, name |-> n, outcome |-> o]

\* Positions of the log at which call c was made
CallsOf(log, c) == {i \in 1..Len(log) : log[i].call = c}

\* Positions of the log at which call c for migration n succeeded
OkCalls(log, c, n) == {i \in CallsOf(log, c) : log[i] = Entry(c, n, "ok")}

\* The names for which call c was made, in call order
RECURSIVE NamesCalled(_, _)
NamesCalled(log, c) ==
  IF log = <<>> THEN <<>>
  ELSE (IF Head(log).call = c THEN <<Head(log).name>> ELSE <<>>)
       \o NamesCalled(Tail(log), c)

RowNames(rows) == {rows[i].name : i \in 1..Len(rows)}

Loaded == loadMigrations(dir)

AllValid(ms) == \A i \in 1..Len(ms) : validate(ms[i])

\* Names of the rows of `rows` that have no loaded migration file
OrphanNames(rows) == RowNames(rows) \ RowNames(Loaded)

\* The batch migrate() hands to the Runner: what is loaded and not yet in the
\* ledger the operation started from
Batch ==
  LET fresh(m) == m.name \notin RowNames(last.before)
  IN SelectSeq(Loaded, fresh)

\* The calls a Runner makes for a batch when every step succeeds
RECURSIVE ApplyCalls(_)
ApplyCalls(batch) ==
  IF batch = <<>> THEN <<>>
  ELSE <<Entry("executeUp", Head(batch).name, "ok"),
         Entry("markMigrationApplied", Head(batch).name, "ok")>>
       \o ApplyCalls(Tail(batch))

\* A non-dry-run migrate() that reached the Runner
RunnerRan ==
  /\ last.op = "migrate"
  /\ ~options.dryRun
  /\ CallsOf(last.log, "beginTransaction") # {}

\* A step of some migration of the batch failed: its validation, its up
\* execution or its ledger write
StepFailed ==
  \/ \E i \in 1..Len(last.log) :
       /\ last.log[i].call \in {"executeUp", "markMigrationApplied"}
       /\ last.log[i].outcome # "ok"
  \/ (last.error # NoErr /\ Head(last.error) = "Invalid migration")

RolledBackOk ==
  \E i \in CallsOf(last.log, "rollbackTransaction") : last.log[i].outcome = "ok"

\* C1: in a non-dry-run runMigrations call, commitTransaction is issued only
\* after the up execution and the ledger write of every migration of the
\* batch succeeded, in batch order; when a step of a migration fails, commit
\* is never issued, rollbackTransaction is attempted, and if that rollback
\* succeeds the ledger holds no row of any migration of the batch.
C1_BatchAtomic ==
  RunnerRan =>
    /\ \A c \in CallsOf(last.log, "commitTransaction") :
         \E b \in CallsOf(last.log, "beginTransaction") :
           /\ b < c
           /\ last.log[b].outcome = "ok"
           /\ SubSeq(last.log, b + 1, c - 1) = ApplyCalls(Batch)
    /\ StepFailed =>
         /\ CallsOf(last.log, "commitTransaction") = {}
         /\ CallsOf(last.log, "rollbackTransaction") # {}
         /\ ~last.success
         /\ RolledBackOk => RowNames(ledger) \cap RowNames(Batch) = {}

\* A step of the second migration of a two-migration batch fails after the
\* first migration was executed and recorded, and the rollback succeeds.
C1_Witness ==
  /\ RunnerRan
  /\ StepFailed
  /\ RolledBackOk
  /\ Cardinality(RowNames(Batch)) = 2
  /\ \E n \in RowNames(Batch) : OkCalls(last.log, "markMigrationApplied", n) # {}

C3_DryRunNoEffect ==
  (last.op \in {"migrate", "rollback"} /\ options.dryRun) =>
    /\ ledger = last.before
    /\ schema = last.schemaBefore

\* C4: for N valid loaded migrations and an empty ledger, a non-dry-run
\* migrate() returns success with N names in ascending timestamp order, and
\* the ledger then holds exactly one row per loaded migration.
C4_MigrateAll ==
  (last.op = "migrate" /\ ~options.dryRun /\ last.before = <<>> /\ AllValid(Loaded)) =>
    /\ last.success
    /\ Len(last.names) = Len(Loaded)
    /\ \A i \in 1..Len(Loaded) : last.names[i] = Loaded[i].name
    /\ \A i, j \in 1..Len(Loaded) :
         i < j => Loaded[i].timestamp <= Loaded[j].timestamp
    /\ Len(ledger) = Len(Loaded)
    /\ \A i \in 1..Len(Loaded) :
         Cardinality({j \in 1..Len(ledger) : ledger[j].name = Loaded[i].name}) = 1

\* The directory holds exactly one migration, named n, and it is valid
OnlyMigration(n) ==
  /\ Loaded # <<>>
  /\ AllValid(Loaded)
  /\ RowNames(Loaded) = {n}

\* rollback(1) ended, directly after a migrate() that started from an empty
\* ledger, both non-dry-run, with one valid migration n in the directory
RoundTripOf(n) ==
  /\ last.op = "rollback"
  /\ last.steps = 1
  /\ last.after.op = "migrate"
  /\ last.after.fresh
  /\ ~options.dryRun
  /\ OnlyMigration(n)

\* C5: round trip.  For a single valid migration M and an empty ledger,
\* migrate() followed by rollback(1) leaves the ledger without a row for M,
\* having executed M's down body exactly once and its up body exactly once.
C5_RoundTrip ==
  \A n \in Names :
    RoundTripOf(n) =>
      /\ n \notin RowNames(ledger)
      /\ NamesCalled(last.log, "executeDown") = <<n>>
      /\ last.after.ups = <<n>>

TsOfRow(rows, n) == (CHOOSE r \in Range(rows) : r.name = n).timestamp

\* C6: a successful rollback(steps), steps >= 1, rolls back exactly
\* min(steps, |ledger|) ledger entries, none of them older (by timestamp)
\* than an entry it keeps, in descending timestamp order; every other ledger
\* row is left as it was.
C6_RollbackSelection ==
  (last.op = "rollback" /\ last.steps >= 1 /\ last.success) =>
    LET rows == last.before
        out == last.names
        gone(r) == r.name \in Range(out)
        kept(r) == r.name \notin Range(out)
    IN /\ Len(out) = Min(last.steps, Len(rows))
       /\ Cardinality(Range(out)) = Len(out)
       /\ Range(out) \subseteq RowNames(rows)
       /\ \A i \in 1..Len(rows), j \in 1..Len(rows) :
            (gone(rows[i]) /\ kept(rows[j])) => rows[i].timestamp >= rows[j].timestamp
       /\ \A i \in 1..Len(out), j \in 1..Len(out) :
            i < j => TsOfRow(rows, out[i]) >= TsOfRow(rows, out[j])
       /\ IF options.dryRun
          THEN ledger = rows /\ NamesCalled(last.log, "executeDown") = <<>>
          ELSE /\ ledger = SelectSeq(rows, kept)
               /\ NamesCalled(last.log, "executeDown") = out
               /\ NamesCalled(last.log, "markMigrationRolledBack") = out

\* rollback(1) on a ledger of two rows whose insertion order is not their
\* timestamp order: the row with the greater timestamp goes, the other stays.
C6_Witness ==
  /\ last.op = "rollback" /\ last.steps = 1 /\ last.success /\ ~options.dryRun
  /\ Len(last.before) = 2
  /\ last.before[1].timestamp > last.before[2].timestamp
  /\ last.names = <<last.before[1].name>>
  /\ ledger = <<last.before[2]>>

\* migrate() started from a ledger with orphaned rows
DriftInMigrate == last.op = "migrate" /\ OrphanNames(last.before) # {}

NoFlags == ~options.forceSync /\ ~options.skipOutOfSync

DriftError(e) == e # NoErr /\ Head(e) = "out of sync"

\* C7: migrate() on a ledger with orphaned rows and neither flag set returns
\* success=false with migrationsApplied=[] and an error naming every orphan;
\* the Runner is not invoked, no up body is executed, the ledger is unchanged.
C7_DriftFailsMigrate ==
  (DriftInMigrate /\ NoFlags) =>
    /\ ~last.success
    /\ ~last.threw
    /\ last.names = <<>>
    /\ DriftError(last.error)
    /\ Range(Tail(last.error)) = OrphanNames(last.before)
    /\ CallsOf(last.log, "beginTransaction") = {}
    /\ CallsOf(last.log, "executeUp") = {}
    /\ ledger = last.before
    /\ schema = last.schemaBefore

\* Drift with a pending migration at hand: one row is orphaned, and a loaded
\* migration is not yet applied.
C7_Witness ==
  /\ DriftInMigrate
  /\ NoFlags
  /\ Batch # <<>>
  /\ ~last.success
  /\ DriftError(last.error)

\* status() started from a ledger with orphaned rows, neither flag set
DriftInStatus == last.op = "status" /\ OrphanNames(last.before) # {} /\ NoFlags

\* C8 as stated: status() on a ledger with an orphaned row and neither flag
\* set rejects with an error naming that row.
C8_StatusRejects ==
  DriftInStatus =>
    /\ last.threw
    /\ DriftError(last.error)
    /\ OrphanNames(last.before) \subseteq Range(Tail(last.error))

\* C8 amended: status() on a ledger with orphaned rows and neither flag set
\* does not reject; it resolves to one entry per loaded migration, applied
\* iff the ledger has a row of that name, no entry for an orphan, and the
\* ledger is unchanged.
C8_StatusTolerates ==
  DriftInStatus =>
    /\ ~last.threw
    /\ last.error = NoErr
    /\ Len(last.out) = Len(Loaded)
    /\ \A i \in 1..Len(Loaded) :
         /\ last.out[i].name = Loaded[i].name
         /\ last.out[i].applied = (Loaded[i].name \in RowNames(last.before))
    /\ ledger = last.before

\* status() with an orphaned row, a loaded applied migration and nothing
\* thrown.
C8_Witness ==
  /\ DriftInStatus
  /\ ~last.threw
  /\ \E i \in 1..Len(last.out) : last.out[i].applied

\* C9: with forceSync set, migrate() deletes exactly the ledger rows whose
\* name has no loaded migration file, leaves every row whose name has a file
\* as it was, does not treat a file without a row as an error, and then
\* applies the pending set and succeeds.
C9_ForceSync ==
  (last.op = "migrate" /\ options.forceSync /\ ~options.dryRun /\ AllValid(Loaded)) =>
    LET hasFile(r) == r.name \in RowNames(Loaded)
    IN /\ NamesCalled(last.log, "markMigrationRolledBack")
            = NamesOf(SelectSeq(SortAsc(last.before), LAMBDA r : ~hasFile(r)))
       /\ SelectSeq(last.before, hasFile)
            = SubSeq(ledger, 1, Len(SelectSeq(last.before, hasFile)))
       /\ ~DriftError(last.error)
       /\ last.success
       /\ last.names = NamesOf(Batch)
       /\ RowNames(ledger) = RowNames(Loaded)

\* An operation that reconciles (migrate or status) started from a ledger
\* with orphaned rows
Reconciled == last.op \in {"migrate", "status"} /\ OrphanNames(last.before) # {}

\* migrate() handed its batch to the Runner: a transaction was begun, or in
\* dry-run the batch was listed up to its first invalid migration
ReachedRunner ==
  IF options.dryRun
  THEN \/ last.names = NamesOf(Batch)
       \/ (last.error # NoErr /\ Head(last.error) = "Invalid migration")
  ELSE CallsOf(last.log, "beginTransaction") # {}

\* C10: with orphaned rows in the ledger, forceSync is evaluated before
\* skipOutOfSync (both set: the orphans are deleted); with only
\* skipOutOfSync the orphaned rows are left untouched and no drift error is
\* raised, migrate() going on to its pending set; only with neither flag set
\* does migrate() fail with the drift error.
C10_Precedence ==
  Reconciled =>
    LET orphan(r) == r.name \in OrphanNames(last.before)
    IN /\ options.forceSync =>
            /\ RowNames(ledger) \cap OrphanNames(last.before) = {}
            /\ Range(NamesCalled(last.log, "markMigrationRolledBack"))
                 = OrphanNames(last.before)
            /\ ~DriftError(last.error)
       /\ (~options.forceSync /\ options.skipOutOfSync) =>
            /\ SelectSeq(ledger, orphan) = SelectSeq(last.before, orphan)
            /\ CallsOf(last.log, "markMigrationRolledBack") = {}
            /\ ~DriftError(last.error)
            /\ (last.op = "migrate" /\ Batch # <<>>) => ReachedRunner
       /\ (last.op = "migrate" /\ DriftError(last.error)) <=> (last.op = "migrate" /\ NoFlags)

\* migrate() with both flags set on a ledger with an orphaned row: the row is
\* deleted.
C10_Witness ==
  /\ Reconciled
  /\ last.op = "migrate"
  /\ options.forceSync /\ options.skipOutOfSync
  /\ Len(ledger) < Len(last.before) \/ RowNames(ledger) # RowNames(last.before)
  /\ RowNames(ledger) \cap OrphanNames(last.before) = {}

\* A call of the operation failed (a failing rollbackTransaction aside: it
\* is only attempted after another failure)
SomeCallFailed ==
  \E i \in 1..Len(last.log) :
    last.log[i].outcome # "ok" /\ last.log[i].call # "rollbackTransaction"

\* C11: migrate() and rollback() never throw; whichever call fails (connect,
\* table creation, directory load, ledger read, reconciliation, a Runner
\* step) they resolve to a result with success=false and a non-empty error,
\* and a result with success=true carries no error.
C11_NeverThrows ==
  (last.op \in {"migrate", "rollback"}) =>
    /\ ~last.threw
    /\ last.success <=> (last.error = NoErr)
    /\ SomeCallFailed => ~last.success

\* migrate() whose force-sync cleanup fails on its ledger delete
C11_Witness ==
  /\ last.op = "migrate"
  /\ \E i \in CallsOf(last.log, "markMigrationRolledBack") :
       last.log[i].outcome = "fault"
  /\ CallsOf(last.log, "beginTransaction") = {}
  /\ ~last.success
  /\ last.error # NoErr

\* The ledger entries rollback(steps) selects from the ledger it started from
Selected == Slice0(SortDesc(SortAsc(last.before)), last.steps)

\* Names of the selected entries that have no loaded migration file
SelectedMissing == RowNames(Selected) \ RowNames(Loaded)

\* C12: rollback(steps) whose selection holds an entry without a loaded
\* migration file returns success=false with migrationsRolledBack=[] and an
\* error naming such an entry; the Runner is not invoked, no transaction is
\* begun, no down body is executed and ledger and schema are unchanged.
C12_RollbackMissingFile ==
  (last.op = "rollback" /\ SelectedMissing # {}) =>
    /\ ~last.success
    /\ ~last.threw
    /\ last.names = <<>>
    /\ Len(last.error) = 2
    /\ last.error[1] = "Migration file not found for"
    /\ last.error[2] \in SelectedMissing
    /\ CallsOf(last.log, "beginTransaction") = {}
    /\ CallsOf(last.log, "executeDown") = {}
    /\ CallsOf(last.log, "markMigrationRolledBack") = {}
    /\ ledger = last.before
    /\ schema = last.schemaBefore

\* A non-dry-run rollback(2) whose first selected entry has its file and
\* whose second has none: nothing is rolled back.
C12_Witness ==
  /\ last.op = "rollback"
  /\ ~options.dryRun
  /\ Len(Selected) = 2
  /\ Selected[1].name \in RowNames(Loaded)
  /\ Selected[2].name \in SelectedMissing
  /\ ~last.success
  /\ ledger = last.before

\* The row markAsApplied writes for loaded migration n
MarkedRow(n) ==
  [name |-> n, timestamp |-> (CHOOSE m \in Range(Loaded) : m.name = n).timestamp]

C14_UniqueNames ==
  \A i, j \in 1..Len(ledger) : ledger[i].name = ledger[j].name => i = j

\* markAsApplied of a name whose row is already in the ledger: the insert is
\* refused and the ledger keeps its single row of that name.
C14_Witness ==
  /\ last.op = "markAsApplied"
  /\ last.arg \in RowNames(last.before)
  /\ last.log[Len(last.log)] = Entry("markMigrationApplied", last.arg, "constraint")
  /\ Cardinality({i \in 1..Len(ledger) : ledger[i].name = last.arg}) = 1

CommittedOk ==
  \E i \in CallsOf(last.log, "commitTransaction") : last.log[i].outcome = "ok"

\* A committed apply of migration n by the operation that just ended
AppliedBy(n) ==
  /\ last.op = "migrate"
  /\ last.success
  /\ OkCalls(last.log, "executeUp", n) # {}
  /\ OkCalls(last.log, "markMigrationApplied", n) # {}
  /\ CommittedOk

\* A committed rollback of migration n by the operation that just ended
RolledBackBy(n) ==
  /\ last.op = "rollback"
  /\ last.success
  /\ OkCalls(last.log, "executeDown", n) # {}
  /\ OkCalls(last.log, "markMigrationRolledBack", n) # {}
  /\ CommittedOk

\* Force-sync cleanup of the orphaned row of n by the operation that just ended
CleanedUpBy(n) ==
  /\ last.op \in {"migrate", "status"}
  /\ options.forceSync
  /\ n \in OrphanNames(last.before)
  /\ OkCalls(last.log, "markMigrationRolledBack", n) # {}

\* A row of n written by markAsApplied(n), no up body executed
MarkedBy(n) ==
  /\ last.op = "markAsApplied"
  /\ last.arg = n
  /\ ~last.threw
  /\ CallsOf(last.log, "executeUp") = {}

RowsAdded == RowNames(ledger) \ RowNames(last.before)

RowsRemoved == RowNames(last.before) \ RowNames(ledger)

\* The rows the operation neither added nor removed are as they were
RowsKept ==
  LET stays(r) == r.name \notin RowsRemoved
      old(r) == r.name \notin RowsAdded
  IN SelectSeq(last.before, stays) = SelectSeq(ledger, old)

\* C15 as stated: a ledger row is created only by a committed apply of its
\* migration (its up body executed), and removed only by a committed
\* rollback of it or by force-sync orphan cleanup.
C15_ProvenanceApplyOnly ==
  ~Idle =>
    /\ \A n \in RowsAdded : AppliedBy(n)
    /\ \A n \in RowsRemoved : RolledBackBy(n) \/ CleanedUpBy(n)
    /\ RowsKept

\* C15 amended: a ledger row is created only by a committed apply of its
\* migration or by markAsApplied of it (which executes no up body), and
\* removed only by a committed rollback of it or by force-sync orphan
\* cleanup; every other row is left as it was.
C15_Provenance ==
  ~Idle =>
    /\ \A n \in RowsAdded : AppliedBy(n) \/ MarkedBy(n)
    /\ \A n \in RowsRemoved : RolledBackBy(n) \/ CleanedUpBy(n)
    /\ RowsKept

\* markAsApplied added a row to a ledger that already had one, and no up
\* body ran.
C15_Witness ==
  /\ last.op = "markAsApplied"
  /\ last.before # <<>>
  /\ RowsAdded = {last.arg}
  /\ MarkedBy(last.arg)
  /\ ~AppliedBy(last.arg)

\* C16: status() resolves to one MigrationStatus per loaded migration, in
\* loader order, applied iff the ledger has a row of that name, appliedAt
\* present only when applied; orphaned rows neither make it fail nor appear
\* in the result.
C16_StatusProjection ==
  (last.op = "status") =>
    /\ ~last.threw
    /\ Len(last.out) = Len(Loaded)
    /\ \A i \in 1..Len(Loaded) :
         /\ last.out[i].name = Loaded[i].name
         /\ last.out[i].applied <=> (Loaded[i].name \in RowNames(last.before))
         /\ last.out[i].appliedAt => last.out[i].applied
         /\ last.out[i].name \notin OrphanNames(last.before)

\* status() on a ledger with an orphaned row and a loaded migration that is
\* not applied, neither flag set
C16_Witness ==
  /\ DriftInStatus
  /\ last.out # <<>>
  /\ \A i \in 1..Len(last.out) : ~last.out[i].applied
  /\ ~last.threw

\* C17: status() is read-only: whatever the ledger, the files and the flags
\* (forceSync included), the ledger after status() is the ledger before it,
\* and no up or down body is executed.
C17_StatusReadOnly ==
  (last.op = "status") =>
    /\ ledger = last.before
    /\ schema = last.schemaBefore
    /\ CallsOf(last.log, "executeUp") = {}
    /\ CallsOf(last.log, "executeDown") = {}

\* True of a state in which an SQL-bearing call on adapter kind k has just
\* returned while the adapter was not ready
CalledUnready(k) ==
  /\ adapter.kind = k
  /\ session.op \in SqlCalls
  /\ ~session.ready

Rejected == session.error = NotConnected /\ session.sent = <<>>

\* C18: on each adapter, execute, query, beginTransaction, commitTransaction
\* and rollbackTransaction reject with 'Database not connected' whenever no
\* connect() has succeeded or disconnect() has been called since, and then
\* nothing is sent to the database.
C18_NotConnectedRejects ==
  \A k \in Kinds : CalledUnready(k) => Rejected

\* The same for the SQLite and the Postgres adapter alone
NotConnectedRejectsSQLite == CalledUnready("sqlite") => Rejected

NotConnectedRejectsPostgres == CalledUnready("postgres") => Rejected

\* A MySQL adapter whose connect() rejected sends a statement all the same
C18_Witness ==
  /\ CalledUnready("mysql")
  /\ session.sent # <<>>

\* A step in which initialize() runs and returns
InitializeStep == Idle /\ last'.op = "initialize"

\* C19: initialize() is idempotent with respect to the ledger.  Whenever it
\* runs, the ledger rows and the target schema are as before; a migrations
\* table that exists stays (it is not dropped or recreated, so the call is a
\* no-op on the database), an absent one is created exactly when both adapter
\* calls go through.
C19_InitializeIdempotent ==
  [][InitializeStep =>
       /\ ledger' = ledger
       /\ schema' = schema
       /\ table => table'
       /\ ~table => (table' <=> ~last'.threw)
       /\ NamesCalled(last'.log, "executeUp") = <<>>
       /\ NamesCalled(last'.log, "markMigrationApplied") = <<>>
       /\ NamesCalled(last'.log, "markMigrationRolledBack") = <<>>]_vars

\* initialize() has run on a database whose migrations table holds rows
C19_Witness ==
  /\ last.op = "initialize"
  /\ ~last.threw
  /\ table
  /\ last.before # <<>>
  /\ ledger = last.before

\* How many Migrations named n the sequence s holds
CountOf(s, n) == Cardinality({i \in 1..Len(s) : s[i].name = n})

Loads == last.op = "loadMigrations" /\ ~last.threw

\* C20: loadMigrations returns at most one Migration per paired-SQL base
\* name: exactly one for a base whose _up.sql and _down.sql are both in the
\* directory, none for a base with only one of the two, and the load does
\* not fail over it (it fails only when the directory cannot be read).
C20_PairedSqlDedup ==
  last.op = "loadMigrations" =>
    /\ last.threw => last.error = <<"fault", "loadMigrations">>
    /\ ~last.threw =>
         \A n \in Names :
           /\ dir[n].kind = "sql" => CountOf(last.out, n) = 1
           /\ dir[n].kind \in {"sqlUp", "sqlDown"} => CountOf(last.out, n) = 0

\* What the loader does: a complete pair is loaded once per member
PairLoadedTwice ==
  Loads => \A n \in Names : dir[n].kind = "sql" => CountOf(last.out, n) = 2

\* The part of C20 on incomplete pairs
HalfPairYieldsNothing ==
  last.op = "loadMigrations" =>
    /\ last.threw =>
         last.error \in {<<"fault", "loadMigrations">>, <<"fault", "readFile">>}
    /\ ~last.threw =>
         \A n \in Names :
           dir[n].kind \in {"sqlUp", "sqlDown"} => CountOf(last.out, n) = 0

\* A directory with a complete pair has been loaded
C20_Witness ==
  /\ Loads
  /\ \E n \in Names : dir[n].kind = "sql" /\ CountOf(last.out, n) = 2
  /\ \E n \in Names : dir[n].kind \in {"sqlUp", "sqlDown"}

\* The timestamp the stated precedence gives a directory entry: the numeric
\* prefix of the file name, else for JSON the timestamp field of the content,
\* else the modification time of the file
PrecedenceTimestamp(f) ==
  IF f.prefix # 0 THEN f.prefix
  ELSE IF f.kind = "json" /\ f.field # 0 THEN f.field
  ELSE f.timestamp

SortedBy(s, key(_)) ==
  \A i, j \in 1..Len(s) : i < j => key(s[i]) <= key(s[j])

TimestampOf(m) == m.timestamp

PrecedenceOf(m) == PrecedenceTimestamp(dir[m.name])

\* C21: every Migration loadMigrations returns carries the timestamp the
\* precedence prefix > JSON timestamp field > modification time gives its
\* entry, and the result is sorted ascending by that timestamp.
C21_TimestampPrecedence ==
  Loads =>
    /\ \A i \in 1..Len(last.out) :
         last.out[i].timestamp = PrecedenceOf(last.out[i])
    /\ SortedBy(last.out, PrecedenceOf)

\* What the loader does: JSON timestamp field, else modification time; the
\* prefix of the file name is never read
TimestampIgnoresPrefix ==
  Loads =>
    /\ \A i \in 1..Len(last.out) :
         last.out[i].timestamp =
           PrecedenceTimestamp([dir[last.out[i].name] EXCEPT !.prefix = 0])
    /\ SortedBy(last.out, TimestampOf)

\* Two prefixed entries were loaded in the order of their modification
\* times, against the order of their prefixes
C21_Witness ==
  /\ Loads
  /\ \E i, j \in 1..Len(last.out) :
       /\ i < j
       /\ dir[last.out[i].name].prefix > dir[last.out[j].name].prefix
       /\ dir[last.out[j].name].prefix # 0

\* Entries the loader can turn into a Migration: a JSON file with its
\* required fields, a complete and readable SQL pair
Loadable(f) ==
  \/ f.kind = "json" /\ f.up # "" /\ f.down # ""
  \/ f.kind = "sql"

DirectoryFault == last.error = <<"fault", "loadMigrations">>

\* C22: a failure confined to one entry (malformed JSON, missing JSON
\* fields, an unreadable file or pair member) removes that entry alone:
\* loadMigrations rejects only when the directory itself cannot be read, and
\* otherwise returns the Migrations of exactly the loadable entries.
C22_FailureIsolation ==
  last.op = "loadMigrations" =>
    /\ last.threw <=> DirectoryFault
    /\ ~last.threw =>
         \A n \in Names : HasName(last.out, n) <=> Loadable(dir[n])

\* The same over directories all of whose listed files can be read
IsolationOfParseFailures ==
  (last.op = "loadMigrations" /\ ~readFails(dir)) =>
    /\ last.threw <=> DirectoryFault
    /\ ~last.threw =>
         \A n \in Names : HasName(last.out, n) <=> Loadable(dir[n])

\* One unreadable file next to a loadable entry: the load rejects
C22_Witness ==
  /\ last.op = "loadMigrations"
  /\ last.threw
  /\ ~DirectoryFault
  /\ \E n \in Names : Loadable(dir[n])
  /\ \E n \in Names : dir[n].kind = "jsonUnreadable"

Constructed == last.op = "newMigration"

VersionDerived == Constructed /\ ~("version" \in last.options.given)

SameTriple(a, b) == a.name = b.name /\ a.up = b.up /\ a.down = b.down

C25_ExplicitTimestamp ==
  Constructed =>
    last.migration.timestamp =
      (IF "timestamp" \in last.options.given
       THEN last.options.timestamp ELSE last.now)

\* The same for explicit timestamps other than 0
ExplicitNonZeroTimestamp ==
  (Constructed /\ ~("timestamp" \in last.options.given
                    /\ last.options.timestamp = 0)) =>
    last.migration.timestamp =
      (IF "timestamp" \in last.options.given
       THEN last.options.timestamp ELSE last.now)

\* A Migration was constructed with the explicit timestamp 0
C25_Witness ==
  /\ Constructed
  /\ "timestamp" \in last.options.given
  /\ last.options.timestamp = 0
  /\ last.migration.timestamp = last.now

InitRan == last.op = "init"

\* C26: the init command run on a migrations directory that does not exist
\* yet creates the directory and the sample pair and finishes successfully
\* (no adapter call failing).
C26_InitCreatesDirectory ==
  (InitRan /\ last.pathBefore = "absent" /\ last.fault = 0) =>
    /\ ~last.failed
    /\ migrationsDir = "directory"
    /\ last.wroteSample
    /\ dir[SampleName] = SampleFile

\* What the init command does: it fails on a path that does not exist or is
\* a file, leaves the path as it was, and never writes the sample pair
InitNeverCreates ==
  InitRan =>
    /\ migrationsDir = last.pathBefore
    /\ ~last.wroteSample
    /\ last.pathBefore # "directory" => (last.failed /\ last.log = <<>>)
    /\ (last.pathBefore = "directory" /\ last.fault = 0) => ~last.failed

\* init has run where no migrations directory was
C26_Witness ==
  /\ InitRan
  /\ last.pathBefore = "absent"
  /\ last.fault = 0
  /\ last.failed
  /\ migrationsDir = "absent"

RunnerCalled == last.op \in {"runMigrations", "rollbackMigrations"}

\* The steps of the log: body executions and ledger writes
IsStep(e) ==
  e.call \in {"executeUp", "executeDown", "markMigrationApplied",
              "markMigrationRolledBack"}

StepsOf(log) == SelectSeq(log, IsStep)

\* The steps a rollbackMigrations call makes when every step succeeds
RECURSIVE RevertCalls(_)
RevertCalls(batch) ==
  IF batch = <<>> THEN <<>>
  ELSE <<Entry("executeDown", Head(batch).name, "ok"),
         Entry("markMigrationRolledBack", Head(batch).name, "ok")>>
       \o RevertCalls(Tail(batch))

ExpectedSteps ==
  IF last.op = "runMigrations"
  THEN ApplyCalls(last.batch) ELSE RevertCalls(last.batch)

IsPrefix(s, t) == Len(s) <= Len(t) /\ \A i \in 1..Len(s) : s[i] = t[i]

FailedAt(p) ==
  /\ p \in 1..Len(last.log)
  /\ last.log[p].call # "rollbackTransaction"
  /\ last.log[p].outcome # "ok"

\* The error the failed call raised
ErrorOf(e) ==
  IF e.outcome = "constraint"
  THEN <<"UNIQUE constraint failed", e.name>>
  ELSE <<"fault", e.call>>

\* C28: in non-dry-run mode a failure of beginTransaction, of a body
\* execution, of a ledger write or of commitTransaction yields success=false
\* with the error of that failure, exactly one rollbackTransaction attempt,
\* made directly after the failed call, and no further call of the batch.
C28_UniformFailure ==
  (RunnerCalled /\ ~last.dryRun) =>
    \A p \in 1..Len(last.log) :
      FailedAt(p) =>
        /\ ~last.threw
        /\ ~last.success
        /\ last.error = ErrorOf(last.log[p])
        /\ Cardinality(CallsOf(last.log, "rollbackTransaction")) = 1
        /\ Len(last.log) = p + 1
        /\ last.log[p + 1].call = "rollbackTransaction"

FailedCalls == {last.log[p].call : p \in {q \in 1..Len(last.log) : FailedAt(q)}}

\* A commitTransaction failed after a batch of two was run
C28_Witness ==
  /\ RunnerCalled
  /\ ~last.dryRun
  /\ Len(last.batch) = 2
  /\ FailedCalls = {"commitTransaction"}
  /\ ~last.success

\* The number of ledger writes of the call that succeeded
Done ==
  Cardinality({p \in 1..Len(last.log) :
     /\ last.log[p].call \in {"markMigrationApplied", "markMigrationRolledBack"}
     /\ last.log[p].outcome = "ok"})

\* The failed step belongs to the k-th migration of the batch
FailedAtMigration(k) ==
  /\ k \in 1..Len(last.batch)
  /\ \/ \E p \in 1..Len(last.log) :
          /\ FailedAt(p)
          /\ IsStep(last.log[p])
          /\ last.log[p].name = last.batch[k].name
     \/ last.error = <<"Invalid migration", last.batch[k].name>>

\* C29: when a non-dry-run Runner call fails at its k-th migration, the
\* names it returns are those of migrations 1..k-1 in input order; a name is
\* in the list only if both the body execution and the ledger write of its
\* migration succeeded.
C29_NamesBeforeFailure ==
  (RunnerCalled /\ ~last.dryRun) =>
    /\ \A k \in 1..Len(last.batch) :
         FailedAtMigration(k) =>
           (~last.success /\ last.names = NamesOf(SubSeq(last.batch, 1, k - 1)))
    /\ last.names = NamesOf(SubSeq(last.batch, 1, Done))

\* The ledger write of the second of two migrations failed
C29_Witness ==
  /\ last.op = "runMigrations"
  /\ ~last.dryRun
  /\ Len(last.batch) = 2
  /\ FailedAtMigration(2)
  /\ \E p \in 1..Len(last.log) :
       FailedAt(p) /\ last.log[p].call = "markMigrationApplied"
  /\ last.names = <<last.batch[1].name>>

RollbackAttemptFailed ==
  \E p \in CallsOf(last.log, "rollbackTransaction") : last.log[p].outcome # "ok"

\* C30: when a step fails and the rollbackTransaction that follows fails as
\* well, the call resolves with success=false and the error of the step that
\* failed first, not that of the rollback.
C30_RollbackFailureSwallowed ==
  (RunnerCalled /\ RollbackAttemptFailed) =>
    /\ ~last.threw
    /\ ~last.success
    /\ last.error # NoErr
    /\ last.error # <<"fault", "rollbackTransaction">>
    /\ \/ \E p \in 1..Len(last.log) :
            FailedAt(p) /\ last.error = ErrorOf(last.log[p])
       \/ Head(last.error) = "Invalid migration"

\* A body execution failed and so did the rollback of the transaction
C30_Witness ==
  /\ last.op = "runMigrations"
  /\ RollbackAttemptFailed
  /\ \E p \in 1..Len(last.log) : FailedAt(p) /\ last.log[p].call = "executeUp"
  /\ last.error = <<"fault", "executeUp">>

\* C31: in dry-run the Runner makes no adapter call at all (no transaction,
\* no body execution, no ledger write) and returns success=true with the
\* name of every input migration, in input order, for every input list.
C31_DryRunReportsAll ==
  (RunnerCalled /\ last.dryRun) =>
    /\ last.log = <<>>
    /\ ledger = last.before /\ schema = last.schemaBefore
    /\ ~last.threw
    /\ last.success
    /\ last.names = NamesOf(last.batch)

\* What the Runner does in dry-run: no adapter call; runMigrations stops at
\* the first migration that fails validate(), rollbackMigrations reports
\* every name
DryRunValidates ==
  (RunnerCalled /\ last.dryRun) =>
    /\ last.log = <<>>
    /\ ledger = last.before /\ schema = last.schemaBefore
    /\ ~last.threw
    /\ (last.op = "rollbackMigrations" \/ AllValid(last.batch)) =>
         (last.success /\ last.names = NamesOf(last.batch))
    /\ (last.op = "runMigrations" /\ ~AllValid(last.batch)) =>
         (~last.success /\ Head(last.error) = "Invalid migration")

\* A dry run of a batch whose second migration is invalid
C31_Witness ==
  /\ last.op = "runMigrations"
  /\ last.dryRun
  /\ Len(last.batch) = 2
  /\ validate(last.batch[1]) /\ ~validate(last.batch[2])
  /\ ~last.success
  /\ last.names = <<last.batch[1].name>>

\* Position k holds the first migration of the batch that fails validate()
FirstInvalid(k) ==
  /\ k \in 1..Len(last.batch)
  /\ ~validate(last.batch[k])
  /\ \A i \in 1..(k - 1) : validate(last.batch[i])

NoCallFailed == \A p \in 1..Len(last.log) : ~FailedAt(p)

\* The call stopped at the invalid migration at position k
AbortedAt(k) ==
  /\ ~last.success
  /\ last.error = <<"Invalid migration", last.batch[k].name>>
  /\ StepsOf(last.log) = SubSeq(ExpectedSteps, 1, 2 * (k - 1))
  /\ CallsOf(last.log, "rollbackTransaction") # {}
  /\ CallsOf(last.log, "commitTransaction") = {}

\* C32: in a non-dry-run Runner call, a migration failing validate() at
\* position k aborts the call with 'Invalid migration' before its body is
\* executed: neither it nor a later migration is executed or written to the
\* ledger, and the transaction is rolled back; in runMigrations and in
\* rollbackMigrations alike.
C32_RunnerValidates ==
  (RunnerCalled /\ ~last.dryRun /\ NoCallFailed) =>
    \A k \in 1..Len(last.batch) : FirstInvalid(k) => AbortedAt(k)

\* The same for runMigrations alone
RunValidates ==
  (last.op = "runMigrations" /\ ~last.dryRun /\ NoCallFailed) =>
    \A k \in 1..Len(last.batch) : FirstInvalid(k) => AbortedAt(k)

\* What rollbackMigrations does: it never validates
RollbackNeverValidates ==
  (last.op = "rollbackMigrations" /\ ~last.dryRun /\ NoCallFailed) =>
    /\ last.success
    /\ StepsOf(last.log) = ExpectedSteps

\* rollbackMigrations has executed the down body of an invalid migration
C32_Witness ==
  /\ last.op = "rollbackMigrations"
  /\ ~last.dryRun
  /\ last.success
  /\ \E k \in 1..Len(last.batch) :
       /\ FirstInvalid(k)
       /\ OkCalls(last.log, "executeDown", last.batch[k].name) # {}
       /\ last.batch[k].name \in RowNames(last.before)
       /\ last.batch[k].name \notin RowNames(ledger)

RowsCommitted == RowNames(ledger) \ RowNames(last.before)

RowsDeleted == RowNames(last.before) \ RowNames(ledger)

\* C33 as stated: after a non-dry-run Runner call, successful or not, the
\* names it returns are exactly the migrations whose ledger rows the call
\* committed (runMigrations) or removed (rollbackMigrations).
C33_NamesAreCommitted ==
  (RunnerCalled /\ ~last.dryRun) =>
    Range(last.names) =
      (IF last.op = "runMigrations" THEN RowsCommitted ELSE RowsDeleted)

\* C33: after a successful non-dry-run runMigrations call the names returned
\* are exactly the rows the call committed, and after a successful
\* rollbackMigrations call no returned name has a row left and the rows
\* removed are those of the returned names that had one; after a failed call
\* the ledger is as before the call, whatever names are returned.
C33_ResultLedgerAgreement ==
  (RunnerCalled /\ ~last.dryRun) =>
    /\ (last.success /\ last.op = "runMigrations") =>
         (Range(last.names) = RowsCommitted /\ RowsDeleted = {})
    /\ (last.success /\ last.op = "rollbackMigrations") =>
         /\ RowsDeleted = Range(last.names) \cap RowNames(last.before)
         /\ RowsCommitted = {}
    /\ ~last.success => ledger = last.before

\* A call failed at its second migration: one name returned, nothing committed
C33_Witness ==
  /\ last.op = "runMigrations"
  /\ ~last.dryRun
  /\ ~last.success
  /\ Len(last.names) = 1
  /\ ledger = last.before

FailedMigrate == last.op = "migrate" /\ ~last.success

\* C34: a migrate() call that returns success=false leaves the ledger exactly
\* as it was before the call, for every flag setting, orphan rows deleted by
\* the force-sync reconciliation included.
C34_FailedMigrateKeepsLedger == FailedMigrate => ledger = last.before

\* Without forceSync a failed migrate() leaves the ledger as it was
FailedMigrateWithoutForceSync ==
  (FailedMigrate /\ ~options.forceSync) => ledger = last.before

\* With forceSync a failed migrate() leaves the ledger without its orphan
\* rows once the reconciliation loop has run, and otherwise as it was
FailedMigrateWithForceSync ==
  (FailedMigrate /\ options.forceSync) =>
    RowNames(ledger) =
      RowNames(last.before) \
        {n \in RowNames(last.before) :
           OkCalls(last.log, "markMigrationRolledBack", n) # {}}

\* The batch failed and was rolled back after force-sync deleted an orphan row
C34_Witness ==
  /\ FailedMigrate
  /\ options.forceSync
  /\ OkCalls(last.log, "rollbackTransaction", "") # {}
  /\ \E n \in RowNames(last.before) : n \notin RowNames(ledger)

\* A rollback(1) that found a non-empty ledger and succeeded
RolledBackOne ==
  /\ last.op = "rollback"
  /\ last.steps = 1
  /\ last.success
  /\ last.before # <<>>

\* The row the ledger received last (rows are kept in insertion order)
LastInserted == last.before[Len(last.before)]

\* C35: after any sequence of migrate() and markAsApplied() calls with files
\* added between the calls, rollback(1) rolls back the migration whose
\* ledger row was inserted last.
C35_RollbackMostRecent == RolledBackOne => last.names = <<LastInserted.name>>

\* rollback(1) takes a row of the highest timestamp, whenever it was inserted
RollbackHighestTimestamp ==
  RolledBackOne =>
    /\ Len(last.names) = 1
    /\ \A i \in 1..Len(last.before) :
         last.before[i].timestamp <= TsOfRow(last.before, last.names[1])

\* The row inserted last has a lower timestamp than an earlier one, and
\* rollback(1) took the earlier one
C35_Witness ==
  /\ RolledBackOne
  /\ ~options.dryRun
  /\ Len(last.before) = 2
  /\ LastInserted.timestamp < last.before[1].timestamp
  /\ last.names = <<last.before[1].name>>
  /\ RowNames(ledger) = {LastInserted.name}

\* C36: for every integer steps, rollback(steps) rolls back at most
\* max(steps, 0) migrations; with steps <= 0 it returns success with an
\* empty migrationsRolledBack and leaves the ledger unchanged.
C36_RollbackStepsBound ==
  last.op = "rollback" =>
    /\ Len(last.names) <= Max(last.steps, 0)
    /\ last.steps <= 0 =>
         (last.success /\ last.names = <<>> /\ ledger = last.before)

\* rollback(0) selects nothing
RollbackZero ==
  (last.op = "rollback" /\ last.steps = 0) =>
    (last.success /\ last.names = <<>> /\ ledger = last.before)

\* A negative steps selects all but the -steps entries of lowest timestamp
RollbackNegative ==
  (last.op = "rollback" /\ last.steps < 0 /\ last.success) =>
    Len(last.names) = Max(Len(last.before) + last.steps, 0)

\* rollback(-1) on a ledger of two rows rolled one of them back
C36_Witness ==
  /\ last.op = "rollback"
  /\ last.steps = -1
  /\ ~options.dryRun
  /\ last.success
  /\ Len(last.before) = 2
  /\ Len(last.names) = 1
  /\ Len(ledger) = 1

TxWork ==
  {"executeUp", "executeDown", "markMigrationApplied", "markMigrationRolledBack"}

BeganOk == OkCalls(last.log, "beginTransaction", "") # {}

TxEnds ==
  CallsOf(last.log, "commitTransaction") \cup CallsOf(last.log, "rollbackTransaction")

\* One begin, opening the call; all work inside the transaction; commit and
\* rollback at most once each; a begun transaction is committed or a
\* rollback of it is attempted
TxProtocol ==
  /\ CallsOf(last.log, "beginTransaction") = {1}
  /\ \A i \in 1..Len(last.log) :
       last.log[i].call \in TxWork =>
         /\ BeganOk
         /\ \A j \in TxEnds : i < j
  /\ Cardinality(CallsOf(last.log, "commitTransaction")) <= 1
  /\ Cardinality(CallsOf(last.log, "rollbackTransaction")) <= 1
  /\ BeganOk =>
       \/ OkCalls(last.log, "commitTransaction", "") # {}
       \/ CallsOf(last.log, "rollbackTransaction") # {}

\* The call returned with the transaction it began neither committed nor
\* rolled back
LeftOpen ==
  /\ BeganOk
  /\ OkCalls(last.log, "commitTransaction", "") = {}
  /\ OkCalls(last.log, "rollbackTransaction", "") = {}

\* C37 as stated: the transaction protocol of a non-dry-run Runner call, and
\* the call never returns with the transaction left open.
C37_NeverLeftOpen ==
  (RunnerCalled /\ ~last.dryRun) => (TxProtocol /\ ~LeftOpen)

\* C37: a non-dry-run Runner call issues exactly one beginTransaction; every
\* execute and ledger write comes after that begin succeeded and before any
\* commit or rollback; commit and rollback are issued at most once each; a
\* call that began a transaction ends with a successful commit or a rollback
\* attempt, and returns with the transaction open only if that rollback
\* attempt failed.
C37_TransactionProtocol ==
  (RunnerCalled /\ ~last.dryRun) =>
    /\ TxProtocol
    /\ LeftOpen =>
         \E j \in CallsOf(last.log, "rollbackTransaction") :
           last.log[j].outcome # "ok"

\* A rollbackMigrations call whose second step failed after work inside the
\* transaction, and whose rollback succeeded
C37_Witness ==
  /\ last.op = "rollbackMigrations"
  /\ ~last.dryRun
  /\ ~last.success
  /\ BeganOk
  /\ \E n \in Names : OkCalls(last.log, "executeDown", n) # {}
  /\ OkCalls(last.log, "rollbackTransaction", "") # {}

Closed == session.op = "close"

\* C38: after any sequence of public operations on one Latter instance, each
\* of which connects the adapter again, followed by a single close(), nothing
\* the instance opened (connection, pool or handle) remains open.
C38_CloseReleasesAll == Closed => adapter.open = 0

\* With no driver failure and at most one operation before it, close()
\* leaves nothing open
CloseAfterOneOperation ==
  (Closed /\ ~session.faults /\ session.connects <= 1) => adapter.open = 0

\* close() gives back at most what the last connect() obtained: one
CloseReleasesAtMostOne ==
  [][(\E fail \in BOOLEAN : LatterClose(fail)) =>
       adapter'.open >= adapter.open - 1]_vars

\* status(); migrate(); status(); close() with no failure anywhere: two of
\* the three connections are still open
C38_Witness ==
  /\ Closed
  /\ ~session.faults
  /\ session.connects = 3
  /\ adapter.open = 2
  /\ ~adapter.isConnected

ConnectRejected == session.op = "connect" /\ session.error # Resolved

ConnectResolved == session.op = "connect" /\ session.error = Resolved

ConnectionState(a) ==
  /\ a.isConnected => a.handle
  /\ ConnectRejected => (~a.isConnected /\ ~a.handle)
  /\ session.op = "disconnect" => ~a.isConnected
  /\ ConnectResolved => a.isConnected

\* C40: for each adapter, isConnected is true only while a connection handle
\* is held; when connect() rejects, isConnected is false and no connection
\* is left open; after disconnect() returns, isConnected is false; a
\* connect() that resolves, also after a disconnect(), ends with isConnected
\* true.
C40_ConnectionState == ConnectionState(adapter)

\* A connect() that resolves leaves the adapter connected and holding a
\* handle, whatever came before
ConnectResolvedConnects ==
  ConnectResolved => (adapter.isConnected /\ adapter.handle)

\* The SQLite adapter never has isConnected set without a handle, and is
\* never connected after disconnect()
SQLiteConnectionState ==
  adapter.kind = "sqlite" =>
    /\ adapter.isConnected => adapter.handle
    /\ session.op = "disconnect" => ~adapter.isConnected

\* MySQL: createConnection() resolved, a SET SESSION statement failed,
\* connect() rejected, and the adapter says it is connected
C40_Witness ==
  /\ adapter.kind = "mysql"
  /\ ConnectRejected
  /\ session.sent # <<>>
  /\ adapter.isConnected
  /\ adapter.handle
  /\ ~session.ready

Finished(p) == orchestrators[p].pc = "done"

Succeeded(p) == Finished(p) /\ orchestrators[p].success

\* C39: two orchestrators running non-dry-run migrate() concurrently against
\* the same database and the same files never both report one migration
\* name in a successful migrationsApplied, never leave two ledger rows for
\* one name, and each migration's up body takes committed effect at most
\* once.
C39_ConcurrentMigrate ==
  /\ (Succeeded(1) /\ Succeeded(2)) =>
       Range(orchestrators[1].acc) \cap Range(orchestrators[2].acc) = {}
  /\ Cardinality(RowNames(ledger)) = Len(ledger)
  /\ Range(orchestrators[1].committed) \cap Range(orchestrators[2].committed) = {}
  /\ \A p \in Orchestrators :
       Cardinality(Range(orchestrators[p].committed)) =
         Len(orchestrators[p].committed)

\* Both orchestrators planned the same migration; one committed it and the
\* other, refused by the UNIQUE name, ended with success=false and nothing
\* committed
C39_Witness ==
  \E p \in Orchestrators :
    /\ Succeeded(p)
    /\ orchestrators[p].committed # <<>>
    /\ Finished(Other(p))
    /\ ~orchestrators[Other(p)].success
    /\ orchestrators[Other(p)].error # NoErr
    /\ Head(orchestrators[Other(p)].error) = "UNIQUE constraint failed"
    /\ orchestrators[Other(p)].pending # <<>>
    /\ orchestrators[Other(p)].pending[1].name \in Range(orchestrators[p].committed)

====
